---- MODULE Spec2Model ----
(***************************************************************************)
(* A model of the issue detection pipeline of k8s-scanner:                 *)
(*   pkg/scanner/pod/scanner.go   ScanPods, processPod, deduplicateIssues  *)
(*   pkg/scanner/pod_events.go    BuildEventMap, GetLatestPodEvent         *)
(* Each part of the pipeline has its own specification over the shared     *)
(* variables; the variables of the other parts stay at their idle values.  *)
(***************************************************************************)
EXTENDS Integers, Sequences, FiniteSets, TLC

VARIABLES
    dIn,      \* deduplicateIssues: the raw issue list handed to the caller
    dOut,     \* deduplicateIssues: the slice returned by the latest call
    dFirst,   \* deduplicateIssues: the slice returned by the call before it
    dPc,      \* "start", "once" (one call made), "twice" (called on its own result)
    evSource, \* the event source: per namespace, whether listing fails and the events listed
    evArg,    \* BuildEventMap: the namespaces argument
    evPc,     \* BuildEventMap: "spawn", "wait", "returned"
    evI,      \* BuildEventMap: namespaces the loop has started a goroutine for
    evWg,     \* BuildEventMap: the WaitGroup counter
    evMu,     \* BuildEventMap: the goroutine holding mu, 0 when unlocked
    gPc,      \* per goroutine: "fetch", "lock", "merge", "unlock", "exit", "done"
    gMap,     \* per goroutine: its nsEventMap
    eventMap, \* BuildEventMap: the shared map
    evRet,    \* BuildEventMap: the map returned
    sCluster, \* the pods in the cluster, as positions of PodCatalog
    sArgNs,   \* ScanPods: the namespaces argument
    sIgnored, \* ScanPods: the ignoredNamespaces argument, as a set
    sThreshold, \* ScanPods: the restartThreshold argument
    sPc,      \* ScanPods: where the calling goroutine is
    sNi,      \* ScanPods: namespaces the listing loop has gone through
    sListFailed, \* the namespaces whose pod listing failed ("" for all namespaces)
    sAllPods, \* ScanPods: allPods
    sPods,    \* ScanPods: pods.Items after the filter
    sEventMap, \* ScanPods: eventMap
    sIssues,  \* ScanPods: issues, the shared accumulator
    sMu,      \* ScanPods: the worker holding mu, 0 when unlocked
    sWg,      \* ScanPods: the WaitGroup counter
    sSem,     \* ScanPods: the number of tokens in the semaphore channel
    sI,       \* ScanPods: pods the loop has started a worker for
    wPc,      \* per worker: "run", "lock", "load", "store", "unlock", "release", "wgdone", "done"
    wIssues,  \* per worker: podIssues
    wTmp,     \* per worker: the accumulator as append read it
    sClock,   \* the time time.Now() gives next
    sRet,     \* ScanPods: the values returned, [issues, err]
    pN,       \* worker pool: the number of pods to scan
    pIssues,  \* worker pool: whether processPod finds issues in the pods
    pPc,      \* worker pool: where the calling goroutine is
    pI,       \* worker pool: pods the loop has started a worker for
    pWg,      \* worker pool: the WaitGroup counter
    pSem,     \* worker pool: the number of tokens in the semaphore channel
    pMu,      \* worker pool: 1 when a worker holds mu, else 0
    pStart,   \* workers started that have not yet locked mu or skipped the append
    pCrit,    \* workers between mu.Lock() and mu.Unlock()
    pUnl,     \* workers past the append whose deferred <-semaphore has not run
    pRel,     \* workers that released the semaphore and have not called wg.Done()
    pDone,    \* workers that have finished
    fOld,     \* DiffReports: oldReport.Issues
    fNew,     \* DiffReports: newReport.Issues
    fPc,      \* DiffReports: "start", "done"
    fResult,  \* DiffReports: the DiffResult returned
    mIn,      \* SummarizeByNamespace: the issues argument
    mOut,     \* SummarizeByNamespace: the map returned
    mPc,      \* SummarizeByNamespace: "start", "done"
    ppPod,    \* processPod: the pod argument
    ppThreshold, \* processPod: the restartThreshold argument
    ppIndex,  \* processPod: the eventMap argument
    ppStatus, \* processPod: podStatus, what GetPodStatus returned
    ppOut,    \* processPod: the issues returned
    ppPc,     \* processPod: "start", "done"
    clReason, \* the classifiers: the reason argument
    clCount,  \* the classifiers: the count argument of CheckRestartSeverity
    clThreshold, \* the classifiers: the threshold argument of CheckRestartSeverity
    clSeverity, \* what SeverityFromReason returned
    clRootCause, \* what DetectPodRootCause returned
    clRestartSeverity, \* what CheckRestartSeverity returned
    clPc,     \* the classifiers: "start", "done"
    cCluster, \* the pods in the cluster, as positions of CleanCatalog
    cInitial, \* the pods in the cluster when CleanPods was called
    cArgNs,   \* CleanPods: the namespaces argument
    cIgnored, \* CleanPods: the ignoredNamespaces argument, as a set
    cDryRun,  \* CleanPods: the dryRun argument
    cPc,      \* CleanPods: "list", "filter", "clean", "returned"
    cNi,      \* CleanPods: namespaces the listing loop has gone through
    cAllPods, \* CleanPods: allPods
    cToClean, \* CleanPods: podsToClean
    cI,       \* CleanPods: entries of podsToClean the loop has gone through
    cDeleted, \* CleanPods: result.DeletedPods
    cErrors,  \* CleanPods: result.Errors
    cRequests, \* the delete requests sent to the cluster
    cRet      \* CleanPods: the values returned, [result, err]

dedupVars == <<dIn, dOut, dFirst, dPc>>
eventVars == <<evSource, evArg, evPc, evI, evWg, evMu, gPc, gMap, eventMap, evRet>>
scanVars == <<sCluster, sArgNs, sIgnored, sThreshold, sPc, sNi, sListFailed, sAllPods, sPods,
              sEventMap, sIssues, sMu, sWg, sSem, sI, wPc, wIssues, wTmp, sClock, sRet>>
poolVars == <<pN, pIssues, pPc, pI, pWg, pSem, pMu, pStart, pCrit, pUnl, pRel, pDone>>
diffVars == <<fOld, fNew, fPc, fResult>>
sumVars == <<mIn, mOut, mPc>>
podVars == <<ppPod, ppThreshold, ppIndex, ppStatus, ppOut, ppPc,
             clReason, clCount, clThreshold, clSeverity, clRootCause, clRestartSeverity, clPc>>
cleanVars == <<cCluster, cInitial, cArgNs, cIgnored, cDryRun, cPc, cNi, cAllPods, cToClean, cI,
               cDeleted, cErrors, cRequests, cRet>>
reportVars == <<diffVars, sumVars, podVars, cleanVars>>
vars == <<dedupVars, eventVars, scanVars, poolVars, reportVars>>

\* the values of a part's variables while another part is under study
DedupIdle == /\ dIn = <<>> /\ dOut = <<>> /\ dFirst = <<>> /\ dPc = "idle"

EventIdle ==
    /\ evSource = <<>> /\ evArg = <<>> /\ evPc = "idle" /\ evI = 0 /\ evWg = 0
    /\ evMu = 0 /\ gPc = <<>> /\ gMap = <<>> /\ eventMap = <<>> /\ evRet = <<>>

ScanIdle ==
    /\ sCluster = {} /\ sArgNs = <<>> /\ sIgnored = {} /\ sThreshold = 0 /\ sPc = "idle"
    /\ sNi = 0 /\ sListFailed = {} /\ sAllPods = <<>> /\ sPods = <<>> /\ sEventMap = <<>>
    /\ sIssues = <<>> /\ sMu = 0 /\ sWg = 0 /\ sSem = 0 /\ sI = 0 /\ wPc = <<>>
    /\ wIssues = <<>> /\ wTmp = <<>> /\ sClock = 0 /\ sRet = <<>>

DiffIdle == /\ fOld = <<>> /\ fNew = <<>> /\ fPc = "idle" /\ fResult = <<>>

SumIdle == /\ mIn = <<>> /\ mOut = <<>> /\ mPc = "idle"

ProcessPodIdle ==
    /\ ppPod = <<>> /\ ppThreshold = 0 /\ ppIndex = <<>> /\ ppStatus = ""
    /\ ppOut = <<>> /\ ppPc = "idle"

ClassifierIdle ==
    /\ clReason = "" /\ clCount = 0 /\ clThreshold = 0 /\ clSeverity = ""
    /\ clRootCause = "" /\ clRestartSeverity = "" /\ clPc = "idle"

PodIdle == ProcessPodIdle /\ ClassifierIdle

CleanIdle ==
    /\ cCluster = {} /\ cInitial = {} /\ cArgNs = <<>> /\ cIgnored = {} /\ cDryRun = FALSE
    /\ cPc = "idle" /\ cNi = 0 /\ cAllPods = <<>> /\ cToClean = <<>> /\ cI = 0
    /\ cDeleted = <<>> /\ cErrors = <<>> /\ cRequests = <<>> /\ cRet = <<>>

ReportIdle == DiffIdle /\ SumIdle /\ PodIdle /\ CleanIdle


----------------------------------------------------------------------------
(* Generic helpers *)

Range(s) == {s[i] : i \in 1..Len(s)}

\* every sequence over S of length at most n
SeqsUpTo(S, n) == UNION {[1..k -> S] : k \in 0..n}

\* the rearrangements of a sequence
SeqPerms(s) == {[i \in 1..Len(s) |-> s[p[i]]] : p \in Permutations(1..Len(s))}

----------------------------------------------------------------------------
(* types.Issue and the priority tables *)

Issue(ns, name, severity, reason, rootCause, podStatus, nodeName, timestamp, restartCount, lastEvent) ==
    [Kind |-> "Pod", Namespace |-> ns, Name |-> name, Severity |-> severity,
     Reason |-> reason, RootCause |-> rootCause, PodStatus |-> podStatus,
     NodeName |-> nodeName, Timestamp |-> timestamp,
     RestartCount |-> restartCount, LastEvent |-> lastEvent]

getSeverityPriority(severity) ==
    CASE severity = "critical" -> 4
      [] severity = "high"     -> 3
      [] severity = "medium"   -> 2
      [] severity = "low"      -> 1
      [] OTHER                 -> 0

getReasonPriorityEvictedFirst(reason) ==
    CASE reason \in {"ImagePullBackOff", "ErrImagePull"} -> 10
      [] reason = "CrashLoopBackOff" -> 9
      [] reason = "Evicted"          -> 8
      [] reason = "OOMKilled"        -> 7
      [] reason = "Pending"          -> 6
      [] reason = "HighRestartCount" -> 1
      [] OTHER                       -> 5

\* a ranking that puts HighRestartCount above every other reason
getReasonPriorityRestartsFirst(reason) ==
    CASE reason \in {"ImagePullBackOff", "ErrImagePull"} -> 10
      [] reason = "CrashLoopBackOff" -> 9
      [] reason = "OOMKilled"        -> 8
      [] reason = "Evicted"          -> 7
      [] reason = "Pending"          -> 6
      [] reason = "HighRestartCount" -> 11
      [] OTHER                       -> 5

\* getReasonPriority
getReasonPriority(reason) ==
    CASE reason \in {"ImagePullBackOff", "ErrImagePull"} -> 10
      [] reason = "CrashLoopBackOff" -> 9
      [] reason = "OOMKilled"        -> 8
      [] reason = "Evicted"          -> 7
      [] reason = "Pending"          -> 6
      [] reason = "HighRestartCount" -> 1
      [] OTHER                       -> 5

----------------------------------------------------------------------------
(* deduplicateIssues *)

\* a key that takes the reason in
podKeyWithReason(issue) == issue.Namespace \o "/" \o issue.Name \o "/" \o issue.Reason

\* a key that leaves the namespace out
podKeyNameOnly(issue) == issue.Name

\* key := issue.Namespace + "/" + issue.Name
podKey(issue) == issue.Namespace \o "/" \o issue.Name

\* one iteration of the loop over the input: podIssues is the map so far
dedupStepSeverityOnly(podIssues, issue) ==
    LET key == podKey(issue) IN
    IF key \notin DOMAIN podIssues
    THEN (key :> issue) @@ podIssues
    ELSE IF getSeverityPriority(issue.Severity) >= getSeverityPriority(podIssues[key].Severity)
         THEN (key :> issue) @@ podIssues
         ELSE podIssues

dedupStep(podIssues, issue) ==
    LET key == podKey(issue) IN
    IF key \notin DOMAIN podIssues
    THEN (key :> issue) @@ podIssues
    ELSE LET existing == podIssues[key]
             existingSeverityPriority == getSeverityPriority(existing.Severity)
             newSeverityPriority == getSeverityPriority(issue.Severity)
         IN  IF newSeverityPriority > existingSeverityPriority
             THEN (key :> issue) @@ podIssues
             ELSE IF /\ newSeverityPriority = existingSeverityPriority
                     /\ getReasonPriority(issue.Reason) > getReasonPriority(existing.Reason)
                  THEN (key :> issue) @@ podIssues
                  ELSE podIssues

\* the map podIssues after the loop has consumed the whole input
RECURSIVE dedupLoop(_)
dedupLoop(issues) ==
    IF issues = <<>> THEN <<>>
    ELSE dedupStep(dedupLoop(SubSeq(issues, 1, Len(issues) - 1)), issues[Len(issues)])

MapValues(m) == {m[k] : k \in DOMAIN m}

\* the slices the final 'range podIssues' loop can build: Go iterates a map in
\* an unspecified order, so every order of the map's entries is possible
mapToSliceDropOne(m) ==
    LET n == Cardinality(DOMAIN m) IN
    IF n = 0 THEN {<<>>}
    ELSE {[i \in 1..(n - 1) |-> m[p[i]]] :
            p \in {q \in [1..n -> DOMAIN m] : \A i, j \in 1..n : q[i] = q[j] => i = j}}

mapToSlice(m) ==
    LET n == Cardinality(DOMAIN m) IN
    {[i \in 1..n |-> m[p[i]]] :
        p \in {q \in [1..n -> DOMAIN m] : \A i, j \in 1..n : q[i] = q[j] => i = j}}

\* the possible return values of deduplicateIssues(issues)
deduplicateIssues(issues) ==
    IF Len(issues) = 0 THEN {issues} ELSE mapToSlice(dedupLoop(issues))

----------------------------------------------------------------------------
(* BuildEventMap *)

\* key := fmt.Sprintf("%s/%s", namespace, name)
eventKey(namespace, name) == namespace \o "/" \o name

\* one iteration of the loop over events.Items: only Pod events are indexed, and
\* an event replaces the entry of its key when it is the first or a later one
nsEventStepLastWins(nsEventMap, namespace, ev) ==
    IF ev.Kind = "Pod"
    THEN (eventKey(namespace, ev.Name) :> [msg |-> ev.Msg, ts |-> ev.Ts]) @@ nsEventMap
    ELSE nsEventMap

\* a loop body that indexes the events of every kind
nsEventStepAnyKind(nsEventMap, namespace, ev) ==
    LET key == eventKey(namespace, ev.Name) IN
    IF key \notin DOMAIN nsEventMap \/ ev.Ts > nsEventMap[key].ts
    THEN (key :> [msg |-> ev.Msg, ts |-> ev.Ts]) @@ nsEventMap
    ELSE nsEventMap

\* the body of the loop over events.Items
nsEventStep(nsEventMap, namespace, ev) ==
    IF ev.Kind = "Pod"
    THEN LET key == eventKey(namespace, ev.Name) IN
         IF key \notin DOMAIN nsEventMap \/ ev.Ts > nsEventMap[key].ts
         THEN (key :> [msg |-> ev.Msg, ts |-> ev.Ts]) @@ nsEventMap
         ELSE nsEventMap
    ELSE nsEventMap

\* nsEventMap after the loop over the fetched events
RECURSIVE buildNsEventMap(_, _)
buildNsEventMap(namespace, items) ==
    IF items = <<>> THEN <<>>
    ELSE nsEventStep(buildNsEventMap(namespace, SubSeq(items, 1, Len(items) - 1)),
                     namespace, items[Len(items)])

\* for k, v := range nsEventMap { eventMap[k] = v.msg }
mergeEventMap(shared, nsEventMap) ==
    [k \in DOMAIN nsEventMap |-> nsEventMap[k].msg] @@ shared

\* where a goroutine that returns early goes: 'defer wg.Done()' still runs
returnSkippingDone == "done"

returnFromGoroutine == "exit"

PoolIdle ==
    /\ pN = 0 /\ pIssues = FALSE /\ pPc = "idle" /\ pI = 0 /\ pWg = 0 /\ pSem = 0
    /\ pMu = 0 /\ pStart = 0 /\ pCrit = 0 /\ pUnl = 0 /\ pRel = 0 /\ pDone = 0

Goroutines == 1..Len(evArg)

\* a lock that never blocks
mutexIgnored(holder) == TRUE

\* mu.Lock() goes through only when no goroutine holds the mutex
mutexFree(holder) == holder = 0

\* the loop starts the goroutine of the next namespace
EvSpawn ==
    /\ evPc = "spawn"
    /\ evI < Len(evArg)
    /\ evWg' = evWg + 1
    /\ evI' = evI + 1
    /\ gPc' = [gPc EXCEPT ![evI + 1] = "fetch"]
    /\ UNCHANGED <<evSource, evArg, evPc, evMu, gMap, eventMap, evRet, dedupVars, scanVars, poolVars, reportVars>>

\* the loop is over
EvLoopEnd ==
    /\ evPc = "spawn"
    /\ evI = Len(evArg)
    /\ evPc' = "wait"
    /\ UNCHANGED <<evSource, evArg, evI, evWg, evMu, gPc, gMap, eventMap, evRet, dedupVars, scanVars, poolVars, reportVars>>

\* a wait that returns while goroutines are still at work
eventsWaitSkipped(counter) == TRUE

\* BuildEventMap's wg.Wait() returns when the counter is zero
eventsWaitOver(counter) == counter = 0

\* wg.Wait() returns and the map is returned
EvWait ==
    /\ evPc = "wait"
    /\ eventsWaitOver(evWg)
    /\ evPc' = "returned"
    /\ evRet' = eventMap
    /\ UNCHANGED <<evSource, evArg, evI, evWg, evMu, gPc, gMap, eventMap, dedupVars, scanVars, poolVars, reportVars>>

\* Events(namespace).List fails: the goroutine returns
GFetchError(g) ==
    /\ gPc[g] = "fetch"
    /\ evSource[evArg[g]].err
    /\ gPc' = [gPc EXCEPT ![g] = returnFromGoroutine]
    /\ UNCHANGED <<evSource, evArg, evPc, evI, evWg, evMu, gMap, eventMap, evRet, dedupVars, scanVars, poolVars, reportVars>>

\* Events(namespace).List succeeds: the goroutine builds its nsEventMap
GFetch(g) ==
    /\ gPc[g] = "fetch"
    /\ ~evSource[evArg[g]].err
    /\ gMap' = [gMap EXCEPT ![g] = buildNsEventMap(evArg[g], evSource[evArg[g]].items)]
    /\ gPc' = [gPc EXCEPT ![g] = "lock"]
    /\ UNCHANGED <<evSource, evArg, evPc, evI, evWg, evMu, eventMap, evRet, dedupVars, scanVars, poolVars, reportVars>>

\* mu.Lock()
GLock(g) ==
    /\ gPc[g] = "lock"
    /\ mutexFree(evMu)
    /\ evMu' = g
    /\ gPc' = [gPc EXCEPT ![g] = "merge"]
    /\ UNCHANGED <<evSource, evArg, evPc, evI, evWg, gMap, eventMap, evRet, dedupVars, scanVars, poolVars, reportVars>>

\* the merge loop, under the lock
GMerge(g) ==
    /\ gPc[g] = "merge"
    /\ eventMap' = mergeEventMap(eventMap, gMap[g])
    /\ gPc' = [gPc EXCEPT ![g] = "unlock"]
    /\ UNCHANGED <<evSource, evArg, evPc, evI, evWg, evMu, gMap, evRet, dedupVars, scanVars, poolVars, reportVars>>

\* mu.Unlock()
GUnlock(g) ==
    /\ gPc[g] = "unlock"
    /\ evMu' = 0
    /\ gPc' = [gPc EXCEPT ![g] = "exit"]
    /\ UNCHANGED <<evSource, evArg, evPc, evI, evWg, gMap, eventMap, evRet, dedupVars, scanVars, poolVars, reportVars>>

\* the deferred wg.Done()
GExit(g) ==
    /\ gPc[g] = "exit"
    /\ evWg' = evWg - 1
    /\ gPc' = [gPc EXCEPT ![g] = "done"]
    /\ UNCHANGED <<evSource, evArg, evPc, evI, evMu, gMap, eventMap, evRet, dedupVars, scanVars, poolVars, reportVars>>

EvNext ==
    \/ EvSpawn
    \/ EvLoopEnd
    \/ EvWait
    \/ \E g \in Goroutines : GFetchError(g)
    \/ \E g \in Goroutines : GFetch(g)
    \/ \E g \in Goroutines : GLock(g)
    \/ \E g \in Goroutines : GMerge(g)
    \/ \E g \in Goroutines : GUnlock(g)
    \/ \E g \in Goroutines : GExit(g)

(* Inputs of the event index specification *)

MaxEvents == 3

EvNamespaces == {"ns1", "ns2"}

\* <<involved object kind, involved object name>>
EvObjects == {<<"Pod", "web">>, <<"Pod", "db">>, <<"Node", "web">>}

\* the message of the i-th event listed in a namespace
MsgNames == <<"m1", "m2", "m3", "m4", "m5">>

\* the lists of n events of a namespace: any involved objects, and last-observed
\* timestamps 1..n in any order
EventLists(ns, n) ==
    {[i \in 1..n |-> [Kind |-> f[i][1], Name |-> f[i][2], Ts |-> p[i],
                      Msg |-> ns \o "." \o MsgNames[i]]] :
        f \in [1..n -> EvObjects], p \in Permutations(1..n)}

\* what listing the events of ns can give: an error, or at most n events
ListOutcomes(ns, n) ==
    {[err |-> TRUE, items |-> <<>>]} \cup
    {[err |-> FALSE, items |-> l] : l \in UNION {EventLists(ns, k) : k \in 0..n}}

\* the event sources that hold at most MaxEvents events over both namespaces
EvSources ==
    UNION {{("ns1" :> o1) @@ ("ns2" :> o2) :
                o2 \in ListOutcomes("ns2", MaxEvents - Len(o1.items))} :
           o1 \in ListOutcomes("ns1", MaxEvents)}

\* the namespaces argument: distinct namespaces in any order
EvArgs == {s \in SeqsUpTo(EvNamespaces, Cardinality(EvNamespaces)) :
              \A i, j \in 1..Len(s) : s[i] = s[j] => i = j}

EventInit ==
    /\ evSource \in EvSources
    /\ evArg \in EvArgs
    /\ evPc = "spawn"
    /\ evI = 0
    /\ evWg = 0
    /\ evMu = 0
    /\ gPc = [g \in 1..Len(evArg) |-> "idle"]
    /\ gMap = [g \in 1..Len(evArg) |-> <<>>]
    /\ eventMap = <<>>
    /\ evRet = <<>>
    /\ DedupIdle
    /\ ScanIdle
    /\ PoolIdle
    /\ ReportIdle

SpecEvents == EventInit /\ [][EvNext]_vars

----------------------------------------------------------------------------
(* The classifier, the status extractor and processPod.  A pod is a record     *)
(* [Namespace, Name, Phase, Reason, NodeName, ContainerStatuses]; a container  *)
(* status is [Waiting, Terminated, RestartCount], where Waiting and Terminated *)
(* are <<>> for a nil pointer and <<reason>> otherwise.                         *)

\* the table of scanner.SeverityFromReason (pkg/scanner/severity.go)
SeverityFromReasonOfScannerPackage(reason) ==
    CASE reason \in {"ImagePullBackOff", "ErrImagePull", "CrashLoopBackOff"} -> "critical"
      [] reason \in {"Evicted", "OOMKilled"} -> "high"
      [] reason = "Pending" -> "medium"
      [] OTHER -> "low"

\* pod.SeverityFromReason
SeverityFromReason(reason) ==
    CASE reason \in {"ImagePullBackOff", "ErrImagePull"} -> "critical"
      [] reason \in {"CrashLoopBackOff", "Pending"}      -> "high"
      [] reason \in {"Evicted", "OOMKilled"}             -> "medium"
      [] OTHER                                           -> "low"

DetectPodRootCause(reason) ==
    CASE reason \in {"ImagePullBackOff", "ErrImagePull"} ->
            "Khong pull duoc image - co the sai tag, private registry hoac thieu quyen."
      [] reason = "CrashLoopBackOff" ->
            "Container start xong roi crash lien tuc - thuong do loi app hoac config sai."
      [] reason = "Evicted" ->
            "Pod bi evict do node thieu tai nguyen (disk pressure, memory pressure) - can kiem tra node resources."
      [] reason = "OOMKilled" ->
            "Container bi kill do thieu bo nho (Out-of-Memory)."
      [] reason = "Pending" ->
            "Khong du tai nguyen (CPU/RAM) hoac khong match node selector/taints."
      [] OTHER ->
            "Chua xac dinh - can kiem tra logs container."

\* a check that is met at the threshold already
CheckRestartSeverityAtThreshold(count, threshold) ==
    IF count >= threshold THEN "high" ELSE "low"

\* pod.CheckRestartSeverity
CheckRestartSeverity(count, threshold) ==
    IF count > threshold THEN "high" ELSE "low"

\* the first index of ContainerStatuses that satisfies the test, 0 when none
FirstWaiting(statuses) ==
    IF \E i \in 1..Len(statuses) : statuses[i].Waiting # <<>>
    THEN CHOOSE i \in 1..Len(statuses) :
            /\ statuses[i].Waiting # <<>>
            /\ \A j \in 1..(i - 1) : statuses[j].Waiting = <<>>
    ELSE 0

FirstTerminated(statuses) ==
    IF \E i \in 1..Len(statuses) : statuses[i].Terminated # <<>>
    THEN CHOOSE i \in 1..Len(statuses) :
            /\ statuses[i].Terminated # <<>>
            /\ \A j \in 1..(i - 1) : statuses[j].Terminated = <<>>
    ELSE 0

\* a status that looks at terminated containers before waiting ones
GetPodStatusTerminatedFirst(pod) ==
    IF pod.Phase # "" THEN pod.Phase
    ELSE IF FirstTerminated(pod.ContainerStatuses) # 0
         THEN pod.ContainerStatuses[FirstTerminated(pod.ContainerStatuses)].Terminated[1]
    ELSE IF FirstWaiting(pod.ContainerStatuses) # 0
         THEN pod.ContainerStatuses[FirstWaiting(pod.ContainerStatuses)].Waiting[1]
    ELSE "Unknown"

\* pod.GetPodStatus
GetPodStatus(pod) ==
    IF pod.Phase # "" THEN pod.Phase
    ELSE IF FirstWaiting(pod.ContainerStatuses) # 0
         THEN pod.ContainerStatuses[FirstWaiting(pod.ContainerStatuses)].Waiting[1]
    ELSE IF FirstTerminated(pod.ContainerStatuses) # 0
         THEN pod.ContainerStatuses[FirstTerminated(pod.ContainerStatuses)].Terminated[1]
    ELSE "Unknown"

\* a lookup in a Go map gives the zero value for a missing key
GetLatestPodEvent(index, namespace, podName) ==
    IF eventKey(namespace, podName) \in DOMAIN index
    THEN index[eventKey(namespace, podName)]
    ELSE ""

RECURSIVE maxRestartUpTo(_, _)
maxRestartUpTo(statuses, n) ==
    IF n = 0 THEN 0
    ELSE LET maxCount == maxRestartUpTo(statuses, n - 1) IN
         IF statuses[n].RestartCount > maxCount THEN statuses[n].RestartCount ELSE maxCount

\* the restart count of the first container only
getFirstRestartCount(pod) ==
    IF Len(pod.ContainerStatuses) = 0 THEN 0 ELSE pod.ContainerStatuses[1].RestartCount

\* getMaxRestartCount
getMaxRestartCount(pod) == maxRestartUpTo(pod.ContainerStatuses, Len(pod.ContainerStatuses))

\* an issue built from the tables alone, HighRestartCount included
createIssueFromTables(pod, reason, podStatus, timestamp, lastEvent, restartCount) ==
    Issue(pod.Namespace, pod.Name, SeverityFromReason(reason), reason,
          DetectPodRootCause(reason),
          podStatus, pod.NodeName, timestamp, restartCount, lastEvent)

\* createIssue
createIssue(pod, reason, podStatus, timestamp, lastEvent, restartCount) ==
    IF reason = "HighRestartCount"
    THEN Issue(pod.Namespace, pod.Name, "high", reason,
               "Container bi restart qua nhieu lan (unstable).",
               podStatus, pod.NodeName, timestamp, restartCount, lastEvent)
    ELSE Issue(pod.Namespace, pod.Name, SeverityFromReason(reason), reason,
               DetectPodRootCause(reason),
               podStatus, pod.NodeName, timestamp, restartCount, lastEvent)

\* a loop body that takes a terminated state with an empty reason as well
containerIssuesAnyTerminated(pod, cs, restartThreshold, podStatus, timestamp, lastEvent) ==
    (IF cs.Waiting # <<>>
     THEN <<createIssue(pod, cs.Waiting[1], podStatus, timestamp, lastEvent, cs.RestartCount)>>
     ELSE <<>>)
    \o
    (IF cs.Terminated # <<>>
     THEN <<createIssue(pod, cs.Terminated[1], podStatus, timestamp, lastEvent, cs.RestartCount)>>
     ELSE <<>>)
    \o
    (IF CheckRestartSeverity(cs.RestartCount, restartThreshold) = "high"
     THEN <<createIssue(pod, "HighRestartCount", podStatus, timestamp, lastEvent, cs.RestartCount)>>
     ELSE <<>>)

\* the issues one container status adds, in the order the loop body appends them
containerIssues(pod, cs, restartThreshold, podStatus, timestamp, lastEvent) ==
    (IF cs.Waiting # <<>>
     THEN <<createIssue(pod, cs.Waiting[1], podStatus, timestamp, lastEvent, cs.RestartCount)>>
     ELSE <<>>)
    \o
    (IF cs.Terminated # <<>> /\ cs.Terminated[1] # ""
     THEN <<createIssue(pod, cs.Terminated[1], podStatus, timestamp, lastEvent, cs.RestartCount)>>
     ELSE <<>>)
    \o
    (IF CheckRestartSeverity(cs.RestartCount, restartThreshold) = "high"
     THEN <<createIssue(pod, "HighRestartCount", podStatus, timestamp, lastEvent, cs.RestartCount)>>
     ELSE <<>>)

RECURSIVE containerLoop(_, _, _, _, _, _)
containerLoop(pod, n, restartThreshold, podStatus, timestamp, lastEvent) ==
    IF n = 0 THEN <<>>
    ELSE containerLoop(pod, n - 1, restartThreshold, podStatus, timestamp, lastEvent)
         \o containerIssues(pod, pod.ContainerStatuses[n], restartThreshold,
                            podStatus, timestamp, lastEvent)

\* timestamp is what time.Now() gives when the worker runs
processPod(pod, restartThreshold, index, timestamp) ==
    LET podStatus == GetPodStatus(pod)
        lastEvent == GetLatestPodEvent(index, pod.Namespace, pod.Name)
    IN  (IF pod.Phase = "Failed" /\ pod.Reason = "Evicted"
         THEN <<createIssue(pod, "Evicted", podStatus, timestamp, lastEvent,
                            getMaxRestartCount(pod))>>
         ELSE <<>>)
        \o containerLoop(pod, Len(pod.ContainerStatuses), restartThreshold,
                         podStatus, timestamp, lastEvent)

----------------------------------------------------------------------------
(* Inputs of the deduplication specification *)

MaxIssues == 3

DedupPods == {<<"ns1", "web">>, <<"ns2", "web">>}

\* <<severity, reason>>: what createIssue produces for each reason, and one issue
\* whose severity string is not one of the four tiers
DedupKinds ==
    {<<"critical", "ImagePullBackOff">>, <<"critical", "ErrImagePull">>,
     <<"high", "CrashLoopBackOff">>, <<"high", "Pending">>,
     <<"high", "HighRestartCount">>, <<"medium", "Evicted">>,
     <<"medium", "OOMKilled">>, <<"low", "ContainerCreating">>,
     <<"warning", "ContainerCreating">>}

DedupIssues ==
    {Issue(p[1], p[2], k[1], k[2], "", "Running", "node1", "t0", 0, "") :
        p \in DedupPods, k \in DedupKinds}

DedupInit ==
    /\ dIn \in SeqsUpTo(DedupIssues, MaxIssues)
    /\ dOut = <<>>
    /\ dFirst = <<>>
    /\ dPc = "start"
    /\ EventIdle
    /\ ScanIdle
    /\ PoolIdle
    /\ ReportIdle

\* deduplicateIssues is called on the raw list, which reaches it in any order
CallDedup ==
    /\ dPc = "start"
    /\ \E arg \in SeqPerms(dIn) : dOut' \in deduplicateIssues(arg)
    /\ dPc' = "once"
    /\ UNCHANGED <<dIn, dFirst, eventVars, scanVars, poolVars, reportVars>>

\* deduplicateIssues is called on its own result
CallDedupAgain ==
    /\ dPc = "once"
    /\ dFirst' = dOut
    /\ dOut' \in deduplicateIssues(dOut)
    /\ dPc' = "twice"
    /\ UNCHANGED <<dIn, eventVars, scanVars, poolVars, reportVars>>

DedupNext == CallDedup \/ CallDedupAgain

SpecDedup == DedupInit /\ [][DedupNext]_vars

----------------------------------------------------------------------------
(* Claims about deduplicateIssues, checked under SpecDedup *)

SamePod(a, b) == a.Namespace = b.Namespace /\ a.Name = b.Name

\* the ranks as the specification states them
ClaimSeverityRank(severity) ==
    IF severity = "critical" THEN 4
    ELSE IF severity = "high" THEN 3
    ELSE IF severity = "medium" THEN 2
    ELSE IF severity = "low" THEN 1
    ELSE 0

ClaimReasonRank(reason) ==
    IF reason = "ImagePullBackOff" \/ reason = "ErrImagePull" THEN 10
    ELSE IF reason = "CrashLoopBackOff" THEN 9
    ELSE IF reason = "OOMKilled" THEN 8
    ELSE IF reason = "Evicted" THEN 7
    ELSE IF reason = "Pending" THEN 6
    ELSE IF reason = "HighRestartCount" THEN 1
    ELSE 5

\* x does not outrank s: lower severity, or equal severity and no higher reason rank
NotOutranked(s, x) ==
    \/ ClaimSeverityRank(x.Severity) < ClaimSeverityRank(s.Severity)
    \/ /\ ClaimSeverityRank(x.Severity) = ClaimSeverityRank(s.Severity)
       /\ ClaimReasonRank(x.Reason) <= ClaimReasonRank(s.Reason)

SameRanks(a, b) ==
    /\ ClaimSeverityRank(a.Severity) = ClaimSeverityRank(b.Severity)
    /\ ClaimReasonRank(a.Reason) = ClaimReasonRank(b.Reason)

\* C1: the list returned by deduplicateIssues holds at most one issue for each
\* (namespace, name) pair.
C1_AtMostOnePerPod ==
    dPc \in {"once", "twice"} =>
        \A i, j \in 1..Len(dOut) : SamePod(dOut[i], dOut[j]) => i = j

\* a call whose input had three issues of two pods has returned two issues
C1_Witness ==
    /\ dPc = "once"
    /\ Len(dIn) = 3
    /\ \E i, j \in 1..Len(dIn) : i # j /\ SamePod(dIn[i], dIn[j])
    /\ \E i, j \in 1..Len(dIn) : ~SamePod(dIn[i], dIn[j])
    /\ Len(dOut) = 2

\* C2: the issue that survives for a pod is an input issue of that pod that no
\* input issue of the pod outranks: it has the highest severity rank, and among
\* the issues of that severity the highest reason rank.
C2_SurvivorIsHighest ==
    dPc = "once" =>
        \A i \in 1..Len(dOut) :
            /\ dOut[i] \in Range(dIn)
            /\ \A x \in Range(dIn) : SamePod(dOut[i], x) => NotOutranked(dOut[i], x)

\* a pod with a HighRestartCount issue first, then CrashLoopBackOff of the same
\* severity, then a lower severity: CrashLoopBackOff survives
C2_Witness ==
    /\ dPc = "once"
    /\ Len(dIn) = 3
    /\ \A i \in 1..3 : SamePod(dIn[i], dIn[1])
    /\ dIn[1].Reason = "HighRestartCount"
    /\ dIn[2].Reason = "CrashLoopBackOff"
    /\ dIn[3].Severity = "medium"
    /\ dOut = <<dIn[2]>>

\* C3: deduplicateIssues is idempotent: called on its own result it returns the
\* same set of issues.
C3_Idempotent ==
    dPc = "twice" => Range(dOut) = Range(dFirst)

\* the second call has run on a result that had dropped an issue of the input
C3_Witness ==
    /\ dPc = "twice"
    /\ Len(dIn) = 3
    /\ Len(dFirst) = 2
    /\ Len(dOut) = 2

\* the issues of the input that belong to the pod of s and rank as high as any
TopOfPod(issues, s) ==
    {x \in Range(issues) :
        /\ SamePod(x, s)
        /\ \A y \in Range(issues) : SamePod(y, s) => NotOutranked(x, y)}

----------------------------------------------------------------------------
(* Claims about BuildEventMap, checked under SpecEvents *)

EvNames == {o[2] : o \in EvObjects}

\* the positions, in the events listed for ns, of the Pod events of a name
PodEventsOf(ns, name) ==
    {i \in 1..Len(evSource[ns].items) :
        evSource[ns].items[i].Kind = "Pod" /\ evSource[ns].items[i].Name = name}

\* C9: a namespace whose event fetch fails leaves no key in the returned index,
\* every Pod event of a namespace whose fetch succeeded has its key in it, and
\* the build is never stuck before it returns, under every interleaving.
C9_FailedFetchAbsorbed ==
    /\ evPc \in {"spawn", "wait"} => ENABLED EvNext
    /\ evPc = "returned" =>
          \A g \in Goroutines : \A name \in EvNames :
              LET ns == evArg[g]
                  key == ns \o "/" \o name
              IN  IF evSource[ns].err
                  THEN key \notin DOMAIN evRet
                  ELSE PodEventsOf(ns, name) # {} =>
                          /\ key \in DOMAIN evRet
                          /\ \E i \in PodEventsOf(ns, name) :
                                evRet[key] = evSource[ns].items[i].Msg

\* the build has returned after the fetch of ns1 failed and that of ns2 gave a
\* Pod event, which is in the index
C9_Witness ==
    /\ evPc = "returned"
    /\ evArg = <<"ns1", "ns2">>
    /\ evSource["ns1"].err
    /\ ~evSource["ns2"].err
    /\ DOMAIN evRet = {"ns2/web"}

\* C10: for every key, the returned index stores the message of the event with
\* the greatest last-observed timestamp among the Pod events fetched for that
\* name in that namespace, when their timestamps are pairwise distinct.
C10_LatestEventWins ==
    evPc = "returned" =>
        \A g \in Goroutines : \A name \in EvNames :
            LET ns == evArg[g]
                items == evSource[ns].items
                evs == PodEventsOf(ns, name)
            IN  (/\ ~evSource[ns].err
                 /\ evs # {}
                 /\ \A i, j \in evs : items[i].Ts = items[j].Ts => i = j)
                => \E i \in evs :
                      /\ \A j \in evs : items[j].Ts <= items[i].Ts
                      /\ (ns \o "/" \o name) \in DOMAIN evRet
                      /\ evRet[ns \o "/" \o name] = items[i].Msg

\* three events of ns1/web listed with timestamps 2, 3, 1: the index holds the
\* message of the second
C10_Witness ==
    /\ evPc = "returned"
    /\ evArg = <<"ns2", "ns1">>
    /\ Len(evSource["ns1"].items) = 3
    /\ \A i \in 1..3 : /\ evSource["ns1"].items[i].Kind = "Pod"
                       /\ evSource["ns1"].items[i].Name = "web"
    /\ evSource["ns1"].items[1].Ts = 2
    /\ evSource["ns1"].items[2].Ts = 3
    /\ evSource["ns1"].items[3].Ts = 1
    /\ evRet = ("ns1/web" :> "ns1.m2")

----------------------------------------------------------------------------
(* ScanPods *)

\* semaphore := make(chan struct{}, 50)
SemaphoreCap == 50

\* a channel that always has room
semaphoreUnbounded(tokens) == TRUE

\* semaphore <- struct{}{} goes through only while the channel has room
semaphoreHasRoom(tokens) == tokens < SemaphoreCap

\* a worker that never receives from the channel
semaphoreKept(tokens) == tokens

\* <-semaphore takes one token out of the channel
semaphoreReleased(tokens) == tokens - 1

\* strings.TrimSpace on the namespace arguments of the model
TrimSpace(str) ==
    CASE str = " "    -> ""
      [] str = " ns2" -> "ns2"
      [] OTHER        -> str

Container(waiting, terminated, restartCount) ==
    [Waiting |-> waiting, Terminated |-> terminated, RestartCount |-> restartCount]

\* the pods a cluster of the model can hold, in the order the API lists them
PodCatalog ==
    << [Namespace |-> "ns1", Name |-> "web", Phase |-> "Running", Reason |-> "",
        NodeName |-> "node1",
        ContainerStatuses |-> <<Container(<<"CrashLoopBackOff">>, <<>>, 3)>>],
       [Namespace |-> "ns1", Name |-> "db", Phase |-> "Running", Reason |-> "",
        NodeName |-> "node1",
        ContainerStatuses |-> <<Container(<<>>, <<>>, 0)>>],
       [Namespace |-> "ns2", Name |-> "web", Phase |-> "Failed", Reason |-> "Evicted",
        NodeName |-> "node2",
        ContainerStatuses |-> <<Container(<<>>, <<"">>, 1), Container(<<>>, <<>>, 2)>>],
       [Namespace |-> "ns2", Name |-> "db", Phase |-> "Running", Reason |-> "",
        NodeName |-> "node2",
        ContainerStatuses |-> <<Container(<<>>, <<"OOMKilled">>, 4)>>] >>

RECURSIVE listUpTo(_, _, _)
listUpTo(cluster, ns, n) ==
    IF n = 0 THEN <<>>
    ELSE listUpTo(cluster, ns, n - 1) \o
         (IF n \in cluster /\ (ns = "" \/ PodCatalog[n].Namespace = ns)
          THEN <<PodCatalog[n]>> ELSE <<>>)

\* Pods(ns).List: the pods of the namespace, of every namespace when ns is ""
listPods(cluster, ns) == listUpTo(cluster, ns, Len(PodCatalog))

RECURSIVE keepUpTo(_, _, _)
keepUpTo(pods, ignored, n) ==
    IF n = 0 THEN <<>>
    ELSE keepUpTo(pods, ignored, n - 1) \o
         (IF pods[n].Namespace \notin ignored THEN <<pods[n]>> ELSE <<>>)

\* a filter that keeps every pod
filterNothing(pods, ignored) == pods

\* the filter on ignoredNamespaces
filterIgnored(pods, ignored) ==
    IF Cardinality(ignored) > 0 THEN keepUpTo(pods, ignored, Len(pods)) ELSE pods

\* uniqueNamespaces: the keys of namespaceSet, in the order the map is iterated
uniqueNamespaces(pods) ==
    LET namespaceSet == {pods[i].Namespace : i \in 1..Len(pods)} IN
    {s \in SeqsUpTo(namespaceSet, Cardinality(namespaceSet)) :
        /\ Len(s) = Cardinality(namespaceSet)
        /\ \A i, j \in 1..Len(s) : s[i] = s[j] => i = j}

Workers == 1..Len(sPods)

\* Pods("").List succeeds
ScanListAll ==
    /\ sPc = "list"
    /\ Len(sArgNs) = 0
    /\ sAllPods' = listPods(sCluster, "")
    /\ sPc' = "filter"
    /\ UNCHANGED <<sCluster, sArgNs, sIgnored, sThreshold, sNi, sListFailed, sPods, sEventMap,
                   sIssues, sMu, sWg, sSem, sI, wPc, wIssues, wTmp, sClock, sRet,
                   dedupVars, eventVars, poolVars, reportVars>>

\* Pods("").List fails: return nil, err
ScanListAllError ==
    /\ sPc = "list"
    /\ Len(sArgNs) = 0
    /\ sListFailed' = sListFailed \cup {""}
    /\ sRet' = [issues |-> <<>>, err |-> TRUE]
    /\ sPc' = "returned"
    /\ UNCHANGED <<sCluster, sArgNs, sIgnored, sThreshold, sNi, sAllPods, sPods, sEventMap,
                   sIssues, sMu, sWg, sSem, sI, wPc, wIssues, wTmp, sClock,
                   dedupVars, eventVars, poolVars, reportVars>>

\* the loop over namespaces meets an entry that is empty once trimmed
ScanListNsSkip ==
    /\ sPc = "list"
    /\ sNi < Len(sArgNs)
    /\ TrimSpace(sArgNs[sNi + 1]) = ""
    /\ sNi' = sNi + 1
    /\ UNCHANGED <<sCluster, sArgNs, sIgnored, sThreshold, sPc, sListFailed, sAllPods, sPods,
                   sEventMap, sIssues, sMu, sWg, sSem, sI, wPc, wIssues, wTmp, sClock, sRet,
                   dedupVars, eventVars, poolVars, reportVars>>

\* Pods(ns).List succeeds for the next namespace
ScanListNs ==
    /\ sPc = "list"
    /\ sNi < Len(sArgNs)
    /\ TrimSpace(sArgNs[sNi + 1]) # ""
    /\ sAllPods' = sAllPods \o listPods(sCluster, TrimSpace(sArgNs[sNi + 1]))
    /\ sNi' = sNi + 1
    /\ UNCHANGED <<sCluster, sArgNs, sIgnored, sThreshold, sPc, sListFailed, sPods,
                   sEventMap, sIssues, sMu, sWg, sSem, sI, wPc, wIssues, wTmp, sClock, sRet,
                   dedupVars, eventVars, poolVars, reportVars>>

\* Pods(ns).List fails for the next namespace: continue
ScanListNsError ==
    /\ sPc = "list"
    /\ sNi < Len(sArgNs)
    /\ TrimSpace(sArgNs[sNi + 1]) # ""
    /\ sListFailed' = sListFailed \cup {TrimSpace(sArgNs[sNi + 1])}
    /\ sNi' = sNi + 1
    /\ UNCHANGED <<sCluster, sArgNs, sIgnored, sThreshold, sPc, sAllPods, sPods,
                   sEventMap, sIssues, sMu, sWg, sSem, sI, wPc, wIssues, wTmp, sClock, sRet,
                   dedupVars, eventVars, poolVars, reportVars>>

\* the loop over namespaces is over
ScanListEnd ==
    /\ sPc = "list"
    /\ Len(sArgNs) > 0
    /\ sNi = Len(sArgNs)
    /\ sPc' = "filter"
    /\ UNCHANGED <<sCluster, sArgNs, sIgnored, sThreshold, sNi, sListFailed, sAllPods, sPods,
                   sEventMap, sIssues, sMu, sWg, sSem, sI, wPc, wIssues, wTmp, sClock, sRet,
                   dedupVars, eventVars, poolVars, reportVars>>

\* no pod listed, or none left by the filter: return []types.Issue{}, nil
ScanNoPods ==
    /\ sPc = "filter"
    /\ Len(sAllPods) = 0 \/ Len(filterIgnored(sAllPods, sIgnored)) = 0
    /\ sRet' = [issues |-> <<>>, err |-> FALSE]
    /\ sPc' = "returned"
    /\ UNCHANGED <<sCluster, sArgNs, sIgnored, sThreshold, sNi, sListFailed, sAllPods, sPods,
                   sEventMap, sIssues, sMu, sWg, sSem, sI, wPc, wIssues, wTmp, sClock,
                   dedupVars, eventVars, poolVars, reportVars>>

\* the pods of ignored namespaces are filtered out
ScanFilter ==
    /\ sPc = "filter"
    /\ Len(sAllPods) # 0
    /\ Len(filterIgnored(sAllPods, sIgnored)) # 0
    /\ sPods' = filterIgnored(sAllPods, sIgnored)
    /\ wPc' = [w \in 1..Len(sPods') |-> "idle"]
    /\ wIssues' = [w \in 1..Len(sPods') |-> <<>>]
    /\ wTmp' = [w \in 1..Len(sPods') |-> <<>>]
    /\ sPc' = "events"
    /\ UNCHANGED <<sCluster, sArgNs, sIgnored, sThreshold, sNi, sListFailed, sAllPods,
                   sEventMap, sIssues, sMu, sWg, sSem, sI, sClock, sRet,
                   dedupVars, eventVars, poolVars, reportVars>>

\* BuildEventMap(client, uniqueNamespaces) is called
ScanBuildEventMap ==
    /\ sPc = "events"
    /\ \E arg \in uniqueNamespaces(sPods) :
          /\ evArg' = arg
          /\ gPc' = [g \in 1..Len(arg) |-> "idle"]
          /\ gMap' = [g \in 1..Len(arg) |-> <<>>]
    /\ evPc' = "spawn"
    /\ evI' = 0
    /\ sPc' = "building"
    /\ UNCHANGED <<evSource, evWg, evMu, eventMap, evRet,
                   sCluster, sArgNs, sIgnored, sThreshold, sNi, sListFailed, sAllPods, sPods,
                   sEventMap, sIssues, sMu, sWg, sSem, sI, wPc, wIssues, wTmp, sClock, sRet,
                   dedupVars, poolVars, reportVars>>

\* BuildEventMap has returned
ScanEventMapBuilt ==
    /\ sPc = "building"
    /\ evPc = "returned"
    /\ sEventMap' = evRet
    /\ sPc' = "add"
    /\ UNCHANGED <<sCluster, sArgNs, sIgnored, sThreshold, sNi, sListFailed, sAllPods, sPods,
                   sIssues, sMu, sWg, sSem, sI, wPc, wIssues, wTmp, sClock, sRet,
                   dedupVars, eventVars, poolVars, reportVars>>

\* wg.Add(1) for the next pod
ScanAdd ==
    /\ sPc = "add"
    /\ sI < Len(sPods)
    /\ sWg' = sWg + 1
    /\ sPc' = "acquire"
    /\ UNCHANGED <<sCluster, sArgNs, sIgnored, sThreshold, sNi, sListFailed, sAllPods, sPods,
                   sEventMap, sIssues, sMu, sSem, sI, wPc, wIssues, wTmp, sClock, sRet,
                   dedupVars, eventVars, poolVars, reportVars>>

\* semaphore <- struct{}{} goes through and the worker of the pod is started
ScanAcquire ==
    /\ sPc = "acquire"
    /\ semaphoreHasRoom(sSem)
    /\ sSem' = sSem + 1
    /\ wPc' = [wPc EXCEPT ![sI + 1] = "run"]
    /\ sI' = sI + 1
    /\ sPc' = "add"
    /\ UNCHANGED <<sCluster, sArgNs, sIgnored, sThreshold, sNi, sListFailed, sAllPods, sPods,
                   sEventMap, sIssues, sMu, sWg, wIssues, wTmp, sClock, sRet,
                   dedupVars, eventVars, poolVars, reportVars>>

\* the loop over the pods is over
ScanLoopEnd ==
    /\ sPc = "add"
    /\ sI = Len(sPods)
    /\ sPc' = "wait"
    /\ UNCHANGED <<sCluster, sArgNs, sIgnored, sThreshold, sNi, sListFailed, sAllPods, sPods,
                   sEventMap, sIssues, sMu, sWg, sSem, sI, wPc, wIssues, wTmp, sClock, sRet,
                   dedupVars, eventVars, poolVars, reportVars>>

\* wg.Wait() returns
waitOver(counter) == counter = 0

ScanWait ==
    /\ sPc = "wait"
    /\ waitOver(sWg)
    /\ sPc' = "dedup"
    /\ UNCHANGED <<sCluster, sArgNs, sIgnored, sThreshold, sNi, sListFailed, sAllPods, sPods,
                   sEventMap, sIssues, sMu, sWg, sSem, sI, wPc, wIssues, wTmp, sClock, sRet,
                   dedupVars, eventVars, poolVars, reportVars>>

\* return deduplicateIssues(issues), nil
ScanDedup ==
    /\ sPc = "dedup"
    /\ \E r \in deduplicateIssues(sIssues) : sRet' = [issues |-> r, err |-> FALSE]
    /\ sPc' = "returned"
    /\ UNCHANGED <<sCluster, sArgNs, sIgnored, sThreshold, sNi, sListFailed, sAllPods, sPods,
                   sEventMap, sIssues, sMu, sWg, sSem, sI, wPc, wIssues, wTmp, sClock,
                   dedupVars, eventVars, poolVars, reportVars>>

\* the worker runs processPod; with no issue it goes to its deferred calls
WRun(w) ==
    /\ wPc[w] = "run"
    /\ wIssues' = [wIssues EXCEPT ![w] = processPod(sPods[w], sThreshold, sEventMap, sClock)]
    /\ sClock' = sClock + 1
    /\ wPc' = [wPc EXCEPT ![w] = IF Len(wIssues'[w]) > 0 THEN "lock" ELSE "release"]
    /\ UNCHANGED <<sCluster, sArgNs, sIgnored, sThreshold, sPc, sNi, sListFailed, sAllPods,
                   sPods, sEventMap, sIssues, sMu, sWg, sSem, sI, wTmp, sRet,
                   dedupVars, eventVars, poolVars, reportVars>>

\* mu.Lock()
WLock(w) ==
    /\ wPc[w] = "lock"
    /\ mutexFree(sMu)
    /\ sMu' = w
    /\ wPc' = [wPc EXCEPT ![w] = "load"]
    /\ UNCHANGED <<sCluster, sArgNs, sIgnored, sThreshold, sPc, sNi, sListFailed, sAllPods,
                   sPods, sEventMap, sIssues, sWg, sSem, sI, wIssues, wTmp, sClock, sRet,
                   dedupVars, eventVars, poolVars, reportVars>>

\* append reads the accumulator
WLoad(w) ==
    /\ wPc[w] = "load"
    /\ wTmp' = [wTmp EXCEPT ![w] = sIssues]
    /\ wPc' = [wPc EXCEPT ![w] = "store"]
    /\ UNCHANGED <<sCluster, sArgNs, sIgnored, sThreshold, sPc, sNi, sListFailed, sAllPods,
                   sPods, sEventMap, sIssues, sMu, sWg, sSem, sI, wIssues, sClock, sRet,
                   dedupVars, eventVars, poolVars, reportVars>>

\* issues = append(issues, podIssues...)
WStore(w) ==
    /\ wPc[w] = "store"
    /\ sIssues' = wTmp[w] \o wIssues[w]
    /\ wPc' = [wPc EXCEPT ![w] = "unlock"]
    /\ UNCHANGED <<sCluster, sArgNs, sIgnored, sThreshold, sPc, sNi, sListFailed, sAllPods,
                   sPods, sEventMap, sMu, sWg, sSem, sI, wIssues, wTmp, sClock, sRet,
                   dedupVars, eventVars, poolVars, reportVars>>

\* mu.Unlock()
WUnlock(w) ==
    /\ wPc[w] = "unlock"
    /\ sMu' = 0
    /\ wPc' = [wPc EXCEPT ![w] = "release"]
    /\ UNCHANGED <<sCluster, sArgNs, sIgnored, sThreshold, sPc, sNi, sListFailed, sAllPods,
                   sPods, sEventMap, sIssues, sWg, sSem, sI, wIssues, wTmp, sClock, sRet,
                   dedupVars, eventVars, poolVars, reportVars>>

\* the deferred <-semaphore
WRelease(w) ==
    /\ wPc[w] = "release"
    /\ sSem' = semaphoreReleased(sSem)
    /\ wPc' = [wPc EXCEPT ![w] = "wgdone"]
    /\ UNCHANGED <<sCluster, sArgNs, sIgnored, sThreshold, sPc, sNi, sListFailed, sAllPods,
                   sPods, sEventMap, sIssues, sMu, sWg, sI, wIssues, wTmp, sClock, sRet,
                   dedupVars, eventVars, poolVars, reportVars>>

\* the deferred wg.Done()
WDone(w) ==
    /\ wPc[w] = "wgdone"
    /\ sWg' = sWg - 1
    /\ wPc' = [wPc EXCEPT ![w] = "done"]
    /\ UNCHANGED <<sCluster, sArgNs, sIgnored, sThreshold, sPc, sNi, sListFailed, sAllPods,
                   sPods, sEventMap, sIssues, sMu, sSem, sI, wIssues, wTmp, sClock, sRet,
                   dedupVars, eventVars, poolVars, reportVars>>

ScanNext ==
    \/ ScanListAll
    \/ ScanListAllError
    \/ ScanListNsSkip
    \/ ScanListNs
    \/ ScanListNsError
    \/ ScanListEnd
    \/ ScanNoPods
    \/ ScanFilter
    \/ ScanBuildEventMap
    \/ EvNext
    \/ ScanEventMapBuilt
    \/ ScanAdd
    \/ ScanAcquire
    \/ ScanLoopEnd
    \/ ScanWait
    \/ ScanDedup
    \/ \E w \in Workers : WRun(w)
    \/ \E w \in Workers : WLock(w)
    \/ \E w \in Workers : WLoad(w)
    \/ \E w \in Workers : WStore(w)
    \/ \E w \in Workers : WUnlock(w)
    \/ \E w \in Workers : WRelease(w)
    \/ \E w \in Workers : WDone(w)

(* Inputs of the scan specification *)

MaxPods == 3

ScanClusters == {c \in SUBSET (1..Len(PodCatalog)) : Cardinality(c) <= MaxPods}

ScanNsArgs == {<<>>, <<"ns1">>, <<"ns1", " ns2">>, <<" ", "ns2">>}

ScanIgnored == {{}, {"ns2"}}

ScanThresholds == {2, 3}

\* the event source of the scans: ns1 lists two events of pod web, the later one
\* first, and an event of a node; listing the events of ns2 fails
ScanEvSources ==
    {("ns1" :> [err |-> FALSE,
                items |-> <<[Kind |-> "Pod", Name |-> "web", Ts |-> 2, Msg |-> "ns1.m1"],
                            [Kind |-> "Pod", Name |-> "web", Ts |-> 1, Msg |-> "ns1.m2"],
                            [Kind |-> "Node", Name |-> "db", Ts |-> 3, Msg |-> "ns1.m3"]>>])
        @@ ("ns2" :> [err |-> TRUE, items |-> <<>>])}

ScanInit ==
    /\ sCluster \in ScanClusters
    /\ sArgNs \in ScanNsArgs
    /\ sIgnored \in ScanIgnored
    /\ sThreshold \in ScanThresholds
    /\ sPc = "list"
    /\ sNi = 0 /\ sListFailed = {} /\ sAllPods = <<>> /\ sPods = <<>> /\ sEventMap = <<>>
    /\ sIssues = <<>> /\ sMu = 0 /\ sWg = 0 /\ sSem = 0 /\ sI = 0 /\ wPc = <<>>
    /\ wIssues = <<>> /\ wTmp = <<>> /\ sClock = 0 /\ sRet = <<>>
    /\ evSource \in ScanEvSources
    /\ evArg = <<>> /\ evPc = "idle" /\ evI = 0 /\ evWg = 0
    /\ evMu = 0 /\ gPc = <<>> /\ gMap = <<>> /\ eventMap = <<>> /\ evRet = <<>>
    /\ DedupIdle
    /\ PoolIdle
    /\ ReportIdle

SpecScan == ScanInit /\ [][ScanNext]_vars

----------------------------------------------------------------------------
(* Claims about ScanPods, checked under SpecScan *)

\* how many times x occurs in the list
Occurrences(list, x) == Cardinality({i \in 1..Len(list) : list[i] = x})

RECURSIVE OccurrencesUpTo(_, _)
\* how many times x occurs in what the workers 1..w got from processPod
OccurrencesUpTo(w, x) ==
    IF w = 0 THEN 0 ELSE OccurrencesUpTo(w - 1, x) + Occurrences(wIssues[w], x)

\* every issue some worker produced or the accumulator holds
IssuesSeen == Range(sIssues) \cup UNION {Range(wIssues[w]) : w \in Workers}

\* the worker phase is over: wg.Wait() has returned
WorkerPhaseOver == sPc = "dedup" \/ (sPc = "returned" /\ Len(sPods) > 0)

\* C6: when the worker phase of ScanPods has finished, the accumulated list is
\* the multiset union of what processPod produced for each scanned pod, and
\* every worker is past its append
C6_AccumulatorIsUnion ==
    WorkerPhaseOver =>
        /\ \A w \in Workers :
              /\ wPc[w] = "done"
              /\ \E t \in 0..Len(sPods) :
                    wIssues[w] = processPod(sPods[w], sThreshold, sEventMap, t)
        /\ \A x \in IssuesSeen :
              Occurrences(sIssues, x) = OccurrencesUpTo(Len(sPods), x)

\* three pods with issues were scanned and the worker of the last pod was the
\* first to append
C6_Witness ==
    /\ sPc = "dedup"
    /\ Len(sPods) = 3
    /\ \A w \in Workers : Len(wIssues[w]) > 0
    /\ Len(sIssues) > 3
    /\ sIssues[1] = wIssues[3][1]

\* C8: if listing the pods fails, for all namespaces or for one namespace of
\* an explicit list, ScanPods returns an error
C8_ListFailureSurfaced ==
    (sPc = "returned" /\ sListFailed # {}) => sRet.err

\* the part of C8 the code keeps: a failed listing of all namespaces is
\* returned as an error, and nothing else is
C8_OnlyAllNamespacesFailureSurfaced ==
    sPc = "returned" => (sRet.err <=> "" \in sListFailed)

\* an explicit list of namespaces, the listing of one of them failed, and
\* ScanPods returned normally
C8_Witness ==
    /\ sPc = "returned"
    /\ Len(sArgNs) > 0
    /\ sListFailed # {}
    /\ ~sRet.err

\* C19: no issue ScanPods returns is of an ignored namespace, whether all
\* namespaces are scanned or namespaces are given (a namespace both given and
\* ignored yields nothing), and no worker is started for a pod of an ignored
\* namespace
C19_IgnoredNamespacesYieldNothing ==
    /\ \A w \in Workers :
          /\ sPods[w].Namespace \notin sIgnored
          /\ \A i \in 1..Len(wIssues[w]) : wIssues[w][i].Namespace \notin sIgnored
    /\ \A i \in 1..Len(sIssues) : sIssues[i].Namespace \notin sIgnored
    /\ sPc = "returned" =>
          \A i \in 1..Len(sRet.issues) : sRet.issues[i].Namespace \notin sIgnored

\* ns2 is both requested and ignored, the cluster has a pod with issues in
\* ns2, and the scan returned the issue of ns1 only
C19_Witness ==
    /\ sPc = "returned"
    /\ sArgNs = <<"ns1", " ns2">>
    /\ sIgnored = {"ns2"}
    /\ \E i \in 1..Len(sAllPods) : sAllPods[i].Namespace = "ns2"
    /\ Len(sRet.issues) = 1
    /\ sRet.issues[1].Namespace = "ns1"

----------------------------------------------------------------------------
(* The worker pool of ScanPods with more pods than semaphore slots.  The     *)
(* workers run the same code, so the pool is described by the number of      *)
(* workers at each point of that code.  processPod is local to its worker     *)
(* and is taken together with the worker's next step on shared state.        *)

\* wg.Add(1) for the next pod
PoolAdd ==
    /\ pPc = "add"
    /\ pI < pN
    /\ pWg' = pWg + 1
    /\ pPc' = "acquire"
    /\ UNCHANGED <<pN, pIssues, pI, pSem, pMu, pStart, pCrit, pUnl, pRel, pDone,
                   dedupVars, eventVars, scanVars, reportVars>>

\* semaphore <- struct{}{} goes through and the worker of the pod is started
PoolAcquire ==
    /\ pPc = "acquire"
    /\ semaphoreHasRoom(pSem)
    /\ pSem' = pSem + 1
    /\ pStart' = pStart + 1
    /\ pI' = pI + 1
    /\ pPc' = "add"
    /\ UNCHANGED <<pN, pIssues, pWg, pMu, pCrit, pUnl, pRel, pDone,
                   dedupVars, eventVars, scanVars, reportVars>>

\* the loop over the pods is over
PoolLoopEnd ==
    /\ pPc = "add"
    /\ pI = pN
    /\ pPc' = "wait"
    /\ UNCHANGED <<pN, pIssues, pI, pWg, pSem, pMu, pStart, pCrit, pUnl, pRel, pDone,
                   dedupVars, eventVars, scanVars, reportVars>>

\* wg.Wait() returns; deduplicateIssues follows and ScanPods returns
PoolWait ==
    /\ pPc = "wait"
    /\ waitOver(pWg)
    /\ pPc' = "returned"
    /\ UNCHANGED <<pN, pIssues, pI, pWg, pSem, pMu, pStart, pCrit, pUnl, pRel, pDone,
                   dedupVars, eventVars, scanVars, reportVars>>

\* a worker finds no issue and goes to its deferred calls
PoolSkip ==
    /\ ~pIssues
    /\ pStart > 0
    /\ pStart' = pStart - 1
    /\ pUnl' = pUnl + 1
    /\ UNCHANGED <<pN, pIssues, pPc, pI, pWg, pSem, pMu, pCrit, pRel, pDone,
                   dedupVars, eventVars, scanVars, reportVars>>

\* a worker finds issues and takes mu
PoolLock ==
    /\ pIssues
    /\ pStart > 0
    /\ mutexFree(pMu)
    /\ pMu' = 1
    /\ pStart' = pStart - 1
    /\ pCrit' = pCrit + 1
    /\ UNCHANGED <<pN, pIssues, pPc, pI, pWg, pSem, pUnl, pRel, pDone,
                   dedupVars, eventVars, scanVars, reportVars>>

\* the worker appends and calls mu.Unlock()
PoolUnlock ==
    /\ pCrit > 0
    /\ pMu' = 0
    /\ pCrit' = pCrit - 1
    /\ pUnl' = pUnl + 1
    /\ UNCHANGED <<pN, pIssues, pPc, pI, pWg, pSem, pStart, pRel, pDone,
                   dedupVars, eventVars, scanVars, reportVars>>

\* the deferred <-semaphore
PoolRelease ==
    /\ pUnl > 0
    /\ pSem' = semaphoreReleased(pSem)
    /\ pUnl' = pUnl - 1
    /\ pRel' = pRel + 1
    /\ UNCHANGED <<pN, pIssues, pPc, pI, pWg, pMu, pStart, pCrit, pDone,
                   dedupVars, eventVars, scanVars, reportVars>>

\* the deferred wg.Done()
PoolDone ==
    /\ pRel > 0
    /\ pWg' = pWg - 1
    /\ pRel' = pRel - 1
    /\ pDone' = pDone + 1
    /\ UNCHANGED <<pN, pIssues, pPc, pI, pSem, pMu, pStart, pCrit, pUnl,
                   dedupVars, eventVars, scanVars, reportVars>>

PoolNext ==
    \/ PoolAdd
    \/ PoolAcquire
    \/ PoolLoopEnd
    \/ PoolWait
    \/ PoolSkip
    \/ PoolLock
    \/ PoolUnlock
    \/ PoolRelease
    \/ PoolDone

(* Inputs of the worker pool specification *)

\* the largest number of pods: one more than the semaphore has slots
MaxPoolPods == 51

PoolInit ==
    /\ pN \in {1, MaxPoolPods}
    /\ pIssues \in BOOLEAN
    /\ pPc = "add"
    /\ pI = 0 /\ pWg = 0 /\ pSem = 0 /\ pMu = 0
    /\ pStart = 0 /\ pCrit = 0 /\ pUnl = 0 /\ pRel = 0 /\ pDone = 0
    /\ DedupIdle
    /\ EventIdle
    /\ ScanIdle
    /\ ReportIdle

SpecPool == PoolInit /\ [][PoolNext]_vars

----------------------------------------------------------------------------
(* Claims about the worker pool, checked under SpecPool and FairSpecPool *)

\* workers between their start and the end of their processing and merge
\* step, or still holding their semaphore slot
InFlight == pStart + pCrit + pUnl

\* C5: at any moment at most 50 workers are between the start and the
\* completion of their per-workload processing and merge step, however many
\* workloads are scanned
C5_AtMostFiftyInFlight ==
    /\ InFlight <= 50
    /\ pSem = InFlight

\* more pods than slots: 50 workers in flight, the loop blocked on the send
C5_Witness ==
    /\ pN > 50
    /\ pPc = "acquire"
    /\ pI = 50
    /\ InFlight = 50
    /\ ~ENABLED PoolAcquire

\* steps a worker still has to take from its start: lock or skip, unlock,
\* release, done
StepsOfWorker == IF pIssues THEN 4 ELSE 3

\* the number of steps the calling goroutine and the workers still have to take
PoolVariant ==
    (pN - pI) * (2 + StepsOfWorker)
    - (IF pPc = "acquire" THEN 1 ELSE 0)
    + (CASE pPc \in {"add", "acquire"} -> 2 [] pPc = "wait" -> 1 [] OTHER -> 0)
    + pStart * StepsOfWorker + pCrit * 3 + pUnl * 2 + pRel

\* C7: ScanPods terminates, also with more workloads than concurrency slots:
\* until ScanPods has returned some goroutine can take a step (no deadlock),
\* every step brings the scan one step nearer to its end, and when ScanPods
\* returns every worker has run to completion and released its slot
C7_ScanPodsTerminates ==
    /\ [](pPc # "returned" => ENABLED PoolNext)
    /\ [](PoolVariant >= 0)
    /\ [][PoolVariant' = PoolVariant - 1]_vars
    /\ [](pPc = "returned" =>
            /\ pDone = pN
            /\ pSem = 0
            /\ pWg = 0
            /\ InFlight + pRel = 0
            /\ PoolVariant = 0)

\* the 51st pod's worker was held back by the full semaphore and the scan
\* returned all the same
C7_Witness ==
    /\ pN > 50
    /\ pPc = "returned"
    /\ pDone = pN

----------------------------------------------------------------------------
(* DiffReports (report package): the difference between two saved reports *)

\* a key that includes the reason
issueKeyWithReason(issue) ==
    issue.Namespace \o "/" \o issue.Kind \o "/" \o issue.Name \o "/" \o issue.Reason

\* fmt.Sprintf("%s/%s/%s", issue.Namespace, issue.Kind, issue.Name)
issueKey(issue) == issue.Namespace \o "/" \o issue.Kind \o "/" \o issue.Name

RECURSIVE buildIssuesMap(_, _)
\* the map the loop over the first n issues builds: a later issue replaces an
\* earlier one that has the same key
buildIssuesMap(issues, n) ==
    IF n = 0 THEN <<>>
    ELSE (issueKey(issues[n]) :> issues[n]) @@ buildIssuesMap(issues, n - 1)

\* the orders in which a range loop can go through the keys of a map
KeyOrders(map) ==
    {order \in [1..Cardinality(DOMAIN map) -> DOMAIN map] :
        \A i, j \in 1..Cardinality(DOMAIN map) : order[i] = order[j] => i = j}

\* a test that finds no key
keyAlwaysMissing(key, other) == TRUE

\* _, exists := other[key]; !exists
keyMissing(key, other) == key \notin DOMAIN other

RECURSIVE onlyInUnfiltered(_, _, _, _)
\* a loop without the test on the other map: every issue of map
onlyInUnfiltered(order, n, map, other) ==
    IF n = 0 THEN <<>>
    ELSE Append(onlyInUnfiltered(order, n - 1, map, other), map[order[n]])

RECURSIVE onlyIn(_, _, _, _)
\* the issues of map whose key the other map lacks, in the order of the loop
onlyIn(order, n, map, other) ==
    IF n = 0 THEN <<>>
    ELSE IF keyMissing(order[n], other)
         THEN Append(onlyIn(order, n - 1, map, other), map[order[n]])
         ELSE onlyIn(order, n - 1, map, other)

\* the two values the other way round
formatChangeReversed(label, old, new) == label \o ": " \o new \o " → " \o old

\* fmt.Sprintf("<label>: %s → %s", old, new)
formatChange(label, old, new) == label \o ": " \o old \o " → " \o new

\* a comparison of the timestamps alone
compareTimestampOnly(old, new) ==
    IF old.Timestamp # new.Timestamp
    THEN <<formatChange("Timestamp", old.Timestamp, new.Timestamp)>>
    ELSE <<>>

compareIssues(old, new) ==
    (IF old.Severity # new.Severity
     THEN <<formatChange("Severity", old.Severity, new.Severity)>> ELSE <<>>)
    \o (IF old.Reason # new.Reason
        THEN <<formatChange("Reason", old.Reason, new.Reason)>> ELSE <<>>)
    \o (IF old.PodStatus # new.PodStatus
        THEN <<formatChange("Status", old.PodStatus, new.PodStatus)>> ELSE <<>>)
    \o (IF old.RestartCount # new.RestartCount
        THEN <<formatChange("RestartCount", ToString(old.RestartCount),
                            ToString(new.RestartCount))>> ELSE <<>>)
    \o (IF old.RootCause # new.RootCause
        THEN <<formatChange("RootCause", old.RootCause, new.RootCause)>> ELSE <<>>)
    \o (IF old.NodeName # new.NodeName
        THEN <<formatChange("NodeName", old.NodeName, new.NodeName)>> ELSE <<>>)

IssueChange(oldIssue, newIssue, changes) ==
    [OldIssue |-> oldIssue, NewIssue |-> newIssue, Changes |-> changes]

RECURSIVE findChanged(_, _, _, _)
\* the third loop: the keys of the new map that the old map has too
findChanged(order, n, oldIssuesMap, newIssuesMap) ==
    IF n = 0 THEN <<>>
    ELSE LET rest == findChanged(order, n - 1, oldIssuesMap, newIssuesMap)
             key == order[n]
         IN  IF ~keyMissing(key, oldIssuesMap)
                /\ Len(compareIssues(oldIssuesMap[key], newIssuesMap[key])) > 0
             THEN Append(rest, IssueChange(oldIssuesMap[key], newIssuesMap[key],
                            compareIssues(oldIssuesMap[key], newIssuesMap[key])))
             ELSE rest

\* the results DiffReports can return: one for each order in which the three
\* range loops go through the maps
DiffReports(oldIssues, newIssues) ==
    LET oldIssuesMap == buildIssuesMap(oldIssues, Len(oldIssues))
        newIssuesMap == buildIssuesMap(newIssues, Len(newIssues))
    IN  {[NewIssues |-> onlyIn(o1, Len(o1), newIssuesMap, oldIssuesMap),
          ResolvedIssues |-> onlyIn(o2, Len(o2), oldIssuesMap, newIssuesMap),
          ChangedIssues |-> findChanged(o3, Len(o3), oldIssuesMap, newIssuesMap)] :
            o1 \in KeyOrders(newIssuesMap),
            o2 \in KeyOrders(oldIssuesMap),
            o3 \in KeyOrders(newIssuesMap)}

CallDiffReports ==
    /\ fPc = "start"
    /\ fResult' \in DiffReports(fOld, fNew)
    /\ fPc' = "done"
    /\ UNCHANGED <<fOld, fNew, dedupVars, eventVars, scanVars, poolVars,
                   sumVars, podVars, cleanVars>>

DiffNext == CallDiffReports

(* Inputs of the diff specification *)

\* the largest number of issues in the two reports together
MaxDiffIssues == 3

\* the issue of the report every other issue of the model is a variation of
DiffBase ==
    Issue("a", "x", "high", "CrashLoopBackOff", "rc1", "Running", "n1", "t1", 3, "e1")

\* issues with the identity of DiffBase
DiffVariants ==
    {DiffBase,
     [DiffBase EXCEPT !.Severity = "critical"],
     [DiffBase EXCEPT !.Reason = "ImagePullBackOff"],
     [DiffBase EXCEPT !.PodStatus = "Pending"],
     [DiffBase EXCEPT !.RestartCount = 7],
     [DiffBase EXCEPT !.RootCause = "rc2"],
     [DiffBase EXCEPT !.NodeName = "n2"],
     [DiffBase EXCEPT !.Timestamp = "t2"],
     [DiffBase EXCEPT !.LastEvent = "e2"],
     [DiffBase EXCEPT !.Severity = "critical", !.Reason = "ImagePullBackOff",
                      !.RestartCount = 7, !.Timestamp = "t2"]}

\* (namespace, kind, name) of the other issues
DiffIdentities == {<<"a", "Pod", "y">>, <<"a/b", "Pod", "x">>, <<"a", "b/Pod", "x">>}

DiffIssues ==
    DiffVariants \cup
    {[i EXCEPT !.Namespace = id[1], !.Kind = id[2], !.Name = id[3]] :
        i \in {DiffBase, [DiffBase EXCEPT !.RestartCount = 7]}, id \in DiffIdentities}

DiffInit ==
    /\ \E n \in 0..MaxDiffIssues, k \in 0..MaxDiffIssues :
          /\ n + k <= MaxDiffIssues
          /\ fOld \in [1..n -> DiffIssues]
          /\ fNew \in [1..k -> DiffIssues]
    /\ fPc = "start"
    /\ fResult = <<>>
    /\ DedupIdle /\ EventIdle /\ ScanIdle /\ PoolIdle
    /\ SumIdle /\ PodIdle /\ CleanIdle

SpecDiff == DiffInit /\ [][DiffNext]_vars

----------------------------------------------------------------------------
(* Claims about DiffReports, checked under SpecDiff *)

\* (namespace, kind, name) of an issue
Triple(issue) == <<issue.Namespace, issue.Kind, issue.Name>>

TriplesOf(list) == {Triple(list[i]) : i \in 1..Len(list)}

\* the key of an issue: its namespace, kind and name joined by "/"
KeyString(issue) == issue.Namespace \o "/" \o issue.Kind \o "/" \o issue.Name

KeysOf(list) == {KeyString(list[i]) : i \in 1..Len(list)}

\* the positions of the list that hold an issue with the key
PositionsOf(list, key) == {i \in 1..Len(list) : KeyString(list[i]) = key}

\* the issue a report holds under a key: the last one of its list
LastWith(list, key) ==
    list[CHOOSE i \in PositionsOf(list, key) : \A j \in PositionsOf(list, key) : j <= i]

\* the ChangedIssues entries whose new issue has the key
ChangedAt(key) ==
    {i \in 1..Len(fResult.ChangedIssues) : KeyString(fResult.ChangedIssues[i].NewIssue) = key}

\* the key occurs in no collection of the result but, once, in the given one
OnlyOnceIn(key, collection) ==
    /\ Cardinality(PositionsOf(fResult.NewIssues, key)) = (IF collection = "new" THEN 1 ELSE 0)
    /\ Cardinality(PositionsOf(fResult.ResolvedIssues, key)) =
          (IF collection = "resolved" THEN 1 ELSE 0)
    /\ Cardinality(ChangedAt(key)) = (IF collection = "changed" THEN 1 ELSE 0)
    /\ \A i \in 1..Len(fResult.ChangedIssues) :
          KeyString(fResult.ChangedIssues[i].OldIssue) = key => i \in ChangedAt(key)

\* C11: NewIssues holds exactly one issue for each identity key (the string
\* "namespace/kind/name") of the new report that the old report lacks, ResolvedIssues
\* exactly one for each key of the old report that the new report lacks, and
\* such a key is in no other collection of the result
C11_NewAndResolvedByKey ==
    fPc = "done" =>
        /\ \A key \in KeysOf(fNew) \ KeysOf(fOld) :
              /\ OnlyOnceIn(key, "new")
              /\ \E i \in PositionsOf(fResult.NewIssues, key) :
                    fResult.NewIssues[i] = LastWith(fNew, key)
        /\ \A key \in KeysOf(fOld) \ KeysOf(fNew) :
              /\ OnlyOnceIn(key, "resolved")
              /\ \E i \in PositionsOf(fResult.ResolvedIssues, key) :
                    fResult.ResolvedIssues[i] = LastWith(fOld, key)
        /\ KeysOf(fResult.NewIssues) = KeysOf(fNew) \ KeysOf(fOld)
        /\ KeysOf(fResult.ResolvedIssues) = KeysOf(fOld) \ KeysOf(fNew)

\* one key only in the new report, one only in the old report, one in both
C11_Witness ==
    /\ fPc = "done"
    /\ Len(fOld) = 2
    /\ Len(fNew) = 1
    /\ Len(fResult.NewIssues) = 1
    /\ Len(fResult.ResolvedIssues) = 2
    /\ fOld[1].Name # fOld[2].Name

\* the reason or the severity of the two issues differs
ReasonOrSeverityDiffers(old, new) == old.Reason # new.Reason \/ old.Severity # new.Severity

\* C12 as stated: whenever the old and the new report contain an issue with
\* the same (namespace, kind, name) but a different reason or severity, the
\* result has exactly one ChangedIssues entry for it and nothing for it in
\* NewIssues and ResolvedIssues
C12_ChangedNotRemovedAndAdded ==
    fPc = "done" =>
        \A i \in 1..Len(fOld), j \in 1..Len(fNew) :
            (Triple(fOld[i]) = Triple(fNew[j]) /\ ReasonOrSeverityDiffers(fOld[i], fNew[j]))
            => OnlyOnceIn(KeyString(fNew[j]), "changed")

\* C12: when the issue the old report holds under a key (the last of its list)
\* and the issue the new report holds under it have the same (namespace, kind,
\* name) but a different reason or severity, the result has exactly one
\* ChangedIssues entry for the key, carrying these two issues, and nothing for
\* it in NewIssues and ResolvedIssues
C12_ChangedNotRemovedAndAddedPerKey ==
    fPc = "done" =>
        \A key \in KeysOf(fOld) \cap KeysOf(fNew) :
            (/\ Triple(LastWith(fOld, key)) = Triple(LastWith(fNew, key))
             /\ ReasonOrSeverityDiffers(LastWith(fOld, key), LastWith(fNew, key)))
            => /\ OnlyOnceIn(key, "changed")
               /\ \A i \in ChangedAt(key) :
                     /\ fResult.ChangedIssues[i].OldIssue = LastWith(fOld, key)
                     /\ fResult.ChangedIssues[i].NewIssue = LastWith(fNew, key)

\* the same workload with another reason in the new report
C12_Witness ==
    /\ fPc = "done"
    /\ Len(fOld) = 1
    /\ Len(fNew) = 1
    /\ Triple(fOld[1]) = Triple(fNew[1])
    /\ fOld[1].Reason # fNew[1].Reason
    /\ fOld[1].Severity = fNew[1].Severity
    /\ Len(fResult.ChangedIssues) = 1
    /\ Len(fResult.NewIssues) = 0
    /\ Len(fResult.ResolvedIssues) = 0

\* one of the six compared fields differs
ComparedFieldDiffers(old, new) ==
    \/ old.Severity # new.Severity
    \/ old.Reason # new.Reason
    \/ old.PodStatus # new.PodStatus
    \/ old.RestartCount # new.RestartCount
    \/ old.RootCause # new.RootCause
    \/ old.NodeName # new.NodeName

\* C13: for a key in both reports there is a ChangedIssues entry if and only
\* if one of severity, reason, pod status, restart count, root cause, node
\* name differs between the old and the new issue; a report diffed against
\* itself gives three empty collections
C13_ChangedIffComparedFieldDiffers ==
    fPc = "done" =>
        /\ \A key \in KeysOf(fOld) \cap KeysOf(fNew) :
              /\ ChangedAt(key) # {}
                    <=> ComparedFieldDiffers(LastWith(fOld, key), LastWith(fNew, key))
              /\ Cardinality(ChangedAt(key)) <= 1
        /\ fOld = fNew =>
              /\ fResult.NewIssues = <<>>
              /\ fResult.ResolvedIssues = <<>>
              /\ fResult.ChangedIssues = <<>>

\* two reports that hold the same key, one pair differing in the timestamp
\* or the last event only
C13_Witness ==
    /\ fPc = "done"
    /\ Len(fOld) = 1
    /\ Len(fNew) = 1
    /\ KeyString(fOld[1]) = KeyString(fNew[1])
    /\ fOld[1] # fNew[1]
    /\ ~ComparedFieldDiffers(fOld[1], fNew[1])
    /\ fResult.ChangedIssues = <<>>

\* the labels of the compared fields and the text of their values
ComparedFields == 1..6

FieldLabel(f) ==
    CASE f = 1 -> "Severity" [] f = 2 -> "Reason" [] f = 3 -> "Status"
      [] f = 4 -> "RestartCount" [] f = 5 -> "RootCause" [] f = 6 -> "NodeName"

FieldText(issue, f) ==
    CASE f = 1 -> issue.Severity [] f = 2 -> issue.Reason [] f = 3 -> issue.PodStatus
      [] f = 4 -> ToString(issue.RestartCount) [] f = 5 -> issue.RootCause
      [] f = 6 -> issue.NodeName

DifferingFields(old, new) == {f \in ComparedFields : FieldText(old, f) # FieldText(new, f)}

\* C14: every ChangedIssues entry carries the old issue, the new issue and a
\* change list with exactly one line "<Field>: <old> → <new>" per differing
\* compared field and none for an equal field; a restart count going from 3
\* to 7 alone gives exactly ["RestartCount: 3 → 7"]
C14_ChangeListPerDifferingField ==
    fPc = "done" =>
        \A i \in 1..Len(fResult.ChangedIssues) :
            LET c == fResult.ChangedIssues[i]
                key == KeyString(c.NewIssue)
            IN  /\ key \in KeysOf(fOld) \cap KeysOf(fNew)
                /\ c.OldIssue = LastWith(fOld, key)
                /\ c.NewIssue = LastWith(fNew, key)
                /\ Len(c.Changes) = Cardinality(DifferingFields(c.OldIssue, c.NewIssue))
                /\ \A f \in DifferingFields(c.OldIssue, c.NewIssue) :
                      \E k \in 1..Len(c.Changes) :
                          c.Changes[k] = FieldLabel(f) \o ": " \o FieldText(c.OldIssue, f)
                                         \o " → " \o FieldText(c.NewIssue, f)
                /\ (/\ DifferingFields(c.OldIssue, c.NewIssue) = {4}
                    /\ c.OldIssue.RestartCount = 3
                    /\ c.NewIssue.RestartCount = 7)
                   => c.Changes = <<"RestartCount: 3 → 7">>

\* the restart count of a workload went from 3 to 7
C14_Witness ==
    /\ fPc = "done"
    /\ Len(fResult.ChangedIssues) = 1
    /\ fResult.ChangedIssues[1].Changes = <<"RestartCount: 3 → 7">>
    /\ fResult.NewIssues = <<>>
    /\ fResult.ResolvedIssues = <<>>

\* C15: an old and a new issue are matched if and only if their namespace,
\* kind and name are all three equal: every ChangedIssues entry pairs issues
\* of one triple, and an issue whose triple the other report lacks is
\* reported as new or as resolved
C15_MatchIffSameTriple ==
    fPc = "done" =>
        /\ \A i \in 1..Len(fResult.ChangedIssues) :
              Triple(fResult.ChangedIssues[i].OldIssue)
                 = Triple(fResult.ChangedIssues[i].NewIssue)
        /\ TriplesOf(fNew) \ TriplesOf(fOld) \subseteq TriplesOf(fResult.NewIssues)
        /\ TriplesOf(fOld) \ TriplesOf(fNew) \subseteq TriplesOf(fResult.ResolvedIssues)

\* what the code keeps of C15: issues are matched if and only if the strings
\* "namespace/kind/name" are equal; equal triples are always matched
C15_MatchIffSameKeyString ==
    fPc = "done" =>
        /\ \A i \in 1..Len(fResult.ChangedIssues) :
              KeyString(fResult.ChangedIssues[i].OldIssue)
                 = KeyString(fResult.ChangedIssues[i].NewIssue)
        /\ \A i \in 1..Len(fOld), j \in 1..Len(fNew) :
              Triple(fOld[i]) = Triple(fNew[j]) =>
                 /\ fOld[i] \notin Range(fResult.ResolvedIssues)
                 /\ fNew[j] \notin Range(fResult.NewIssues)

\* namespace "a/b" with kind "Pod" in one report, namespace "a" with kind
\* "b/Pod" in the other: reported as one changed issue
C15_Witness ==
    /\ fPc = "done"
    /\ Len(fOld) = 1
    /\ Len(fNew) = 1
    /\ Triple(fOld[1]) # Triple(fNew[1])
    /\ Len(fResult.ChangedIssues) = 1
    /\ fResult.NewIssues = <<>>
    /\ fResult.ResolvedIssues = <<>>

----------------------------------------------------------------------------
(* SummarizeByNamespace (scanner package): the issues counted per namespace *)

\* types.SeveritySummary{}
SeveritySummary == [Critical |-> 0, High |-> 0, Medium |-> 0, Low |-> 0]

\* a switch without the default case
countKnownSeverity(summary, severity) ==
    CASE severity = "critical" -> [summary EXCEPT !.Critical = @ + 1]
      [] severity = "high"     -> [summary EXCEPT !.High = @ + 1]
      [] severity = "medium"   -> [summary EXCEPT !.Medium = @ + 1]
      [] OTHER                 -> summary

\* switch iss.Severity
countSeverity(summary, severity) ==
    CASE severity = "critical" -> [summary EXCEPT !.Critical = @ + 1]
      [] severity = "high"     -> [summary EXCEPT !.High = @ + 1]
      [] severity = "medium"   -> [summary EXCEPT !.Medium = @ + 1]
      [] OTHER                 -> [summary EXCEPT !.Low = @ + 1]

\* the body of the loop for one issue
summarizeStep(result, iss) ==
    LET ns == iss.Namespace
        seeded == IF ns \in DOMAIN result THEN result ELSE (ns :> SeveritySummary) @@ result
    IN  (ns :> countSeverity(seeded[ns], iss.Severity)) @@ seeded

RECURSIVE summarizeLoop(_, _)
summarizeLoop(issues, n) ==
    IF n = 0 THEN <<>>
    ELSE summarizeStep(summarizeLoop(issues, n - 1), issues[n])

SummarizeByNamespace(issues) == summarizeLoop(issues, Len(issues))

\* SummarizeByNamespace is called with the issues in some order
CallSummarize ==
    /\ mPc = "start"
    /\ \E arg \in SeqPerms(mIn) : mOut' = SummarizeByNamespace(arg)
    /\ mPc' = "done"
    /\ UNCHANGED <<mIn, dedupVars, eventVars, scanVars, poolVars,
                   diffVars, podVars, cleanVars>>

SummaryNext == CallSummarize

(* Inputs of the summary specification *)

\* the largest number of issues summarized
MaxSummaryIssues == 3

SummaryNamespaces == {"ns1", "ns2"}

\* the severities of the classifier, and strings that are none of them
SummarySeverities == {"critical", "high", "medium", "low", "warning", "Critical", ""}

SummaryIssues ==
    {Issue(ns, "web", severity, "CrashLoopBackOff", "", "Running", "node1", "", 0, "") :
        ns \in SummaryNamespaces, severity \in SummarySeverities}

SummaryInit ==
    /\ mIn \in SeqsUpTo(SummaryIssues, MaxSummaryIssues)
    /\ mOut = <<>>
    /\ mPc = "start"
    /\ DedupIdle /\ EventIdle /\ ScanIdle /\ PoolIdle
    /\ DiffIdle /\ PodIdle /\ CleanIdle

SpecSummary == SummaryInit /\ [][SummaryNext]_vars

(* Claims about SummarizeByNamespace, checked under SpecSummary *)

\* the issues of the list that are in the namespace
IssuesIn(list, ns) == {i \in 1..Len(list) : list[i].Namespace = ns}

\* how many of them have a severity of the set
SeverityCount(list, ns, severities) ==
    Cardinality({i \in IssuesIn(list, ns) : list[i].Severity \in severities})

\* how many of them have a severity outside the set
OtherSeverityCount(list, ns, severities) ==
    Cardinality({i \in IssuesIn(list, ns) : list[i].Severity \notin severities})

\* C16: the keys of the map SummarizeByNamespace returns are exactly the
\* namespaces with at least one issue; for each of them critical, high and
\* medium count its issues of that severity and low counts its issues of any
\* other severity, so the four counters add up to its number of issues,
\* whatever the order of the input
C16_SummaryCountsPerNamespace ==
    mPc = "done" =>
        /\ DOMAIN mOut = {mIn[i].Namespace : i \in 1..Len(mIn)}
        /\ \A ns \in DOMAIN mOut :
              /\ mOut[ns].Critical = SeverityCount(mIn, ns, {"critical"})
              /\ mOut[ns].High = SeverityCount(mIn, ns, {"high"})
              /\ mOut[ns].Medium = SeverityCount(mIn, ns, {"medium"})
              /\ mOut[ns].Low = OtherSeverityCount(mIn, ns, {"critical", "high", "medium"})
              /\ mOut[ns].Critical + mOut[ns].High + mOut[ns].Medium + mOut[ns].Low
                    = Cardinality(IssuesIn(mIn, ns))

\* a namespace with a critical issue, an issue of severity "low" and one of
\* an unknown severity, the other namespace without issue
C16_Witness ==
    /\ mPc = "done"
    /\ DOMAIN mOut = {"ns1"}
    /\ mOut["ns1"] = [Critical |-> 1, High |-> 0, Medium |-> 0, Low |-> 2]
    /\ \E i \in 1..Len(mIn) : mIn[i].Severity = "warning"
    /\ \E i \in 1..Len(mIn) : mIn[i].Severity = "low"

----------------------------------------------------------------------------
(* The classifiers of the pod package called on their own *)

CallClassifiers ==
    /\ clPc = "start"
    /\ clSeverity' = SeverityFromReason(clReason)
    /\ clRootCause' = DetectPodRootCause(clReason)
    /\ clRestartSeverity' = CheckRestartSeverity(clCount, clThreshold)
    /\ clPc' = "done"
    /\ UNCHANGED <<clReason, clCount, clThreshold, ppPod, ppThreshold, ppIndex,
                   ppStatus, ppOut, ppPc,
                   dedupVars, eventVars, scanVars, poolVars, diffVars, sumVars, cleanVars>>

ClassifierNext == CallClassifiers

(* Inputs of the classifier specification *)

\* the reasons with a case of their own, and strings that have none
ClassifierReasons ==
    {"ImagePullBackOff", "ErrImagePull", "CrashLoopBackOff", "Pending", "Evicted",
     "OOMKilled", "HighRestartCount", "ContainerCreating", "Error", "Completed",
     "totally-unknown", "imagepullbackoff", "evicted", "Unknown", ""}

\* the largest restart count and threshold
MaxRestarts == 3

\* small counts and thresholds, and those around a threshold of 10
ClassifierCounts == 0..MaxRestarts \cup {10, 11}

ClassifierThresholds == 0..MaxRestarts \cup {10}

ClassifierInit ==
    /\ clReason \in ClassifierReasons
    /\ clCount \in ClassifierCounts
    /\ clThreshold \in ClassifierThresholds
    /\ clSeverity = "" /\ clRootCause = "" /\ clRestartSeverity = ""
    /\ clPc = "start"
    /\ DedupIdle /\ EventIdle /\ ScanIdle /\ PoolIdle
    /\ DiffIdle /\ SumIdle /\ ProcessPodIdle /\ CleanIdle

SpecClassifier == ClassifierInit /\ [][ClassifierNext]_vars

(* Claims about the classifiers, checked under SpecClassifier *)

\* C17: pod.SeverityFromReason gives a severity for every reason:
\* ImagePullBackOff and ErrImagePull are critical, CrashLoopBackOff and
\* Pending high, Evicted and OOMKilled medium, every other reason low
C17_SeverityTable ==
    clPc = "done" =>
        /\ clSeverity \in {"critical", "high", "medium", "low"}
        /\ clSeverity = "critical" <=> clReason \in {"ImagePullBackOff", "ErrImagePull"}
        /\ clSeverity = "high" <=> clReason \in {"CrashLoopBackOff", "Pending"}
        /\ clSeverity = "medium" <=> clReason \in {"Evicted", "OOMKilled"}
        /\ clSeverity = "low" <=>
              clReason \notin {"ImagePullBackOff", "ErrImagePull", "CrashLoopBackOff",
                               "Pending", "Evicted", "OOMKilled"}

\* a reason without a case of its own was classified
C17_Witness ==
    /\ clPc = "done"
    /\ clReason = "totally-unknown"
    /\ clSeverity = "low"

----------------------------------------------------------------------------
(* processPod called on its own, and the scan followed by the summary *)

CallProcessPod ==
    /\ ppPc = "start"
    /\ ppStatus' = GetPodStatus(ppPod)
    /\ ppOut' = processPod(ppPod, ppThreshold, ppIndex, "t1")
    /\ ppPc' = "done"
    /\ UNCHANGED <<ppPod, ppThreshold, ppIndex,
                   clReason, clCount, clThreshold, clSeverity, clRootCause,
                   clRestartSeverity, clPc,
                   dedupVars, eventVars, scanVars, poolVars, diffVars, sumVars, cleanVars>>

PodNext == CallProcessPod

\* main: issues = append(issues, pods...); sum := SummarizeByNamespace(issues)
MainSummarize ==
    /\ sPc = "returned"
    /\ mPc = "idle"
    /\ mIn' = sRet.issues
    /\ mOut' = SummarizeByNamespace(sRet.issues)
    /\ mPc' = "done"
    /\ UNCHANGED <<dedupVars, eventVars, scanVars, poolVars, diffVars, podVars, cleanVars>>

\* ScanPods on a single pod: the issues of processPod are the whole raw
\* list, which deduplicateIssues then reduces
DedupPodIssues ==
    /\ ppPc = "done"
    /\ dPc = "idle"
    /\ dIn' = ppOut
    /\ dOut' \in deduplicateIssues(ppOut)
    /\ dPc' = "once"
    /\ UNCHANGED <<dFirst, eventVars, scanVars, poolVars, reportVars>>

PipelineNext ==
    \/ ScanNext
    \/ MainSummarize
    \/ PodNext
    \/ DedupPodIssues

(* Inputs of the processPod specification *)

\* the largest number of containers of a pod
MaxContainers == 2

PodWaitingStates == {<<>>, <<"CrashLoopBackOff">>, <<"ImagePullBackOff">>}

\* a container can carry any reason string, the pod-level "Evicted" included
PodTerminatedStates == {<<>>, <<"">>, <<"OOMKilled">>, <<"Evicted">>}

PodRestartCounts == {0, 3, 4}

\* a v1.ContainerState has at most one of its members set
PodContainers ==
    {Container(state[1], state[2], restartCount) :
        state \in {st \in PodWaitingStates \X PodTerminatedStates :
                      st[1] = <<>> \/ st[2] = <<>>},
        restartCount \in PodRestartCounts}

PodPhases == {<<"Running", "">>, <<"Failed", "">>, <<"Failed", "Evicted">>,
              <<"Running", "Evicted">>, <<"", "">>}

PodsOfModel ==
    {[Namespace |-> "ns1", Name |-> "web", Phase |-> phase[1], Reason |-> phase[2],
      NodeName |-> "node1", ContainerStatuses |-> statuses] :
        phase \in PodPhases, statuses \in SeqsUpTo(PodContainers, MaxContainers)}

PodThresholds == {3}

\* an index with an event of the pod, and one without
PodIndexes == {<<>>, (eventKey("ns1", "web") :> "ns1.m1")}

PodInit ==
    /\ ppPod \in PodsOfModel
    /\ ppThreshold \in PodThresholds
    /\ ppIndex \in PodIndexes
    /\ ppStatus = ""
    /\ ppOut = <<>>
    /\ ppPc = "start"
    /\ ClassifierIdle
    /\ DedupIdle /\ EventIdle /\ ScanIdle /\ PoolIdle
    /\ DiffIdle /\ SumIdle /\ CleanIdle

SpecPod == PodInit /\ [][PodNext]_vars

\* processPod on any pod of the model, or CheckRestartSeverity on its own
RestartInit == PodInit \/ ClassifierInit

RestartNext ==
    \/ PodNext
    \/ ClassifierNext

SpecRestart == RestartInit /\ [][RestartNext]_vars

\* processPod on any pod of the model, or a scan and its summary
PipelineInit == ScanInit \/ PodInit

SpecPipeline == PipelineInit /\ [][PipelineNext]_vars

(* Claims about processPod and the pipeline, checked under SpecPipeline *)

\* not evicted, no waiting container, no container terminated with a reason,
\* no restart count above the threshold
Healthy(pod, threshold) ==
    /\ ~(pod.Phase = "Failed" /\ pod.Reason = "Evicted")
    /\ \A i \in 1..Len(pod.ContainerStatuses) :
          /\ pod.ContainerStatuses[i].Waiting = <<>>
          /\ pod.ContainerStatuses[i].Terminated \in {<<>>, <<"">>}
          /\ pod.ContainerStatuses[i].RestartCount <= threshold

\* not evicted, one container, waiting in CrashLoopBackOff with 3 restarts
CrashLoopingThreeRestarts(pod) ==
    /\ ~(pod.Phase = "Failed" /\ pod.Reason = "Evicted")
    /\ Len(pod.ContainerStatuses) = 1
    /\ pod.ContainerStatuses[1].Waiting = <<"CrashLoopBackOff">>
    /\ pod.ContainerStatuses[1].Terminated = <<>>
    /\ pod.ContainerStatuses[1].RestartCount = 3

\* the scan of namespace ns1 found one crash-looping and one healthy pod, the
\* threshold being at least 3, and main has summarized the result
ScenarioScanned ==
    /\ mPc = "done"
    /\ sThreshold >= 3
    /\ Len(sPods) = 2
    /\ \A w \in Workers : sPods[w].Namespace = "ns1"
    /\ \E a, b \in Workers :
          /\ CrashLoopingThreeRestarts(sPods[a])
          /\ Healthy(sPods[b], sThreshold)

\* C18: a pod that is not evicted and has no waiting container, no container
\* terminated with a non-empty reason and no restart count above the
\* threshold yields no issue; scanning ns1 with one pod waiting in
\* CrashLoopBackOff with 3 restarts (threshold at least 3) and one such
\* healthy pod, then summarizing, yields exactly one issue, of severity high,
\* and the summary critical 0, high 1, medium 0, low 0 for ns1
C18_HealthyPodYieldsNoIssue ==
    /\ (ppPc = "done" /\ Healthy(ppPod, ppThreshold)) => ppOut = <<>>
    /\ \A w \in Workers :
          (wPc[w] \notin {"idle", "run"} /\ Healthy(sPods[w], sThreshold)) => wIssues[w] = <<>>
    /\ ScenarioScanned =>
          /\ ~sRet.err
          /\ Len(sRet.issues) = 1
          /\ sRet.issues[1].Severity = "high"
          /\ sRet.issues[1].Reason = "CrashLoopBackOff"
          /\ DOMAIN mOut = {"ns1"}
          /\ mOut["ns1"] = [Critical |-> 0, High |-> 1, Medium |-> 0, Low |-> 0]

\* the scenario was scanned and summarized
C18_Witness ==
    /\ ScenarioScanned
    /\ sArgNs = <<"ns1">>
    /\ mOut["ns1"].High = 1

\* a pod with two containers, one terminated with an empty reason and one
\* with as many restarts as the threshold, went through processPod
C18_HealthyWitness ==
    /\ ppPc = "done"
    /\ Healthy(ppPod, ppThreshold)
    /\ Len(ppPod.ContainerStatuses) = 2
    /\ ppPod.ContainerStatuses[1].Terminated = <<"">>
    /\ ppPod.ContainerStatuses[2].RestartCount = ppThreshold
    /\ ppOut = <<>>

----------------------------------------------------------------------------
(* CleanPods (pod package): evicted and completed pods reported or deleted *)

\* the pods a cluster of the cleaning model can hold, in the order the API
\* lists them
CleanCatalog ==
    << [Namespace |-> "ns1", Name |-> "old", Phase |-> "Failed", Reason |-> "Evicted"],
       [Namespace |-> "ns1", Name |-> "job", Phase |-> "Succeeded", Reason |-> ""],
       [Namespace |-> "ns1", Name |-> "web", Phase |-> "Running", Reason |-> ""],
       [Namespace |-> "ns2", Name |-> "old", Phase |-> "Failed",
        Reason |-> "Pod was evicted by the kubelet"],
       [Namespace |-> "ns2", Name |-> "err", Phase |-> "Failed", Reason |-> "Error"],
       [Namespace |-> "ns2", Name |-> "gone", Phase |-> "Running", Reason |-> "Evicted"] >>

\* strings.Contains(strings.ToLower(reason), "evicted") on the reasons of the
\* catalog
containsEvicted(reason) == reason \in {"Evicted", "Pod was evicted by the kubelet"}

RECURSIVE cleanListUpTo(_, _, _)
cleanListUpTo(cluster, ns, n) ==
    IF n = 0 THEN <<>>
    ELSE cleanListUpTo(cluster, ns, n - 1) \o
         (IF n \in cluster /\ (ns = "" \/ CleanCatalog[n].Namespace = ns)
          THEN <<CleanCatalog[n]>> ELSE <<>>)

\* Pods(ns).List: the pods of the namespace, of every namespace when ns is ""
cleanListPods(cluster, ns) == cleanListUpTo(cluster, ns, Len(CleanCatalog))

RECURSIVE cleanKeepUpTo(_, _, _)
cleanKeepUpTo(pods, ignored, n) ==
    IF n = 0 THEN <<>>
    ELSE cleanKeepUpTo(pods, ignored, n - 1) \o
         (IF pods[n].Namespace \notin ignored THEN <<pods[n]>> ELSE <<>>)

\* the filter on ignoredNamespaces
cleanFilterIgnored(pods, ignored) ==
    IF Cardinality(ignored) > 0 THEN cleanKeepUpTo(pods, ignored, Len(pods)) ELSE pods

PodInfo(namespace, name, reason, severity) ==
    [Namespace |-> namespace, Name |-> name, Reason |-> reason, Severity |-> severity]

RECURSIVE identifyUpTo(_, _)
identifyUpTo(pods, n) ==
    IF n = 0 THEN <<>>
    ELSE identifyUpTo(pods, n - 1) \o
         (IF pods[n].Phase = "Failed" /\ containsEvicted(pods[n].Reason)
          THEN <<PodInfo(pods[n].Namespace, pods[n].Name, pods[n].Reason, "medium")>>
          ELSE IF pods[n].Phase = "Succeeded"
          THEN <<PodInfo(pods[n].Namespace, pods[n].Name, "Completed", "low")>>
          ELSE <<>>)

identifyPodsToClean(pods) == identifyUpTo(pods, Len(pods))

\* the pods of the cluster a delete request for (namespace, name) removes
podsNamed(cluster, namespace, name) ==
    {n \in cluster : CleanCatalog[n].Namespace = namespace /\ CleanCatalog[n].Name = name}

\* a loop that takes the deleting branch whatever dryRun is
neverDryRun(dryRun) == FALSE

\* if dryRun
isDryRun(dryRun) == dryRun

\* Pods("").List succeeds
CleanListAll ==
    /\ cPc = "list"
    /\ Len(cArgNs) = 0
    /\ cAllPods' = cleanListPods(cCluster, "")
    /\ cPc' = "filter"
    /\ UNCHANGED <<cCluster, cInitial, cArgNs, cIgnored, cDryRun, cNi, cToClean, cI,
                   cDeleted, cErrors, cRequests, cRet,
                   dedupVars, eventVars, scanVars, poolVars, diffVars, sumVars, podVars>>

\* Pods("").List fails: return nil, err
CleanListAllError ==
    /\ cPc = "list"
    /\ Len(cArgNs) = 0
    /\ cRet' = [result |-> <<>>, err |-> TRUE]
    /\ cPc' = "returned"
    /\ UNCHANGED <<cCluster, cInitial, cArgNs, cIgnored, cDryRun, cNi, cAllPods, cToClean, cI,
                   cDeleted, cErrors, cRequests,
                   dedupVars, eventVars, scanVars, poolVars, diffVars, sumVars, podVars>>

\* the loop over namespaces meets an entry that is empty once trimmed
CleanListNsSkip ==
    /\ cPc = "list"
    /\ cNi < Len(cArgNs)
    /\ TrimSpace(cArgNs[cNi + 1]) = ""
    /\ cNi' = cNi + 1
    /\ UNCHANGED <<cCluster, cInitial, cArgNs, cIgnored, cDryRun, cPc, cAllPods, cToClean, cI,
                   cDeleted, cErrors, cRequests, cRet,
                   dedupVars, eventVars, scanVars, poolVars, diffVars, sumVars, podVars>>

\* Pods(ns).List succeeds for the next namespace
CleanListNs ==
    /\ cPc = "list"
    /\ cNi < Len(cArgNs)
    /\ TrimSpace(cArgNs[cNi + 1]) # ""
    /\ cAllPods' = cAllPods \o cleanListPods(cCluster, TrimSpace(cArgNs[cNi + 1]))
    /\ cNi' = cNi + 1
    /\ UNCHANGED <<cCluster, cInitial, cArgNs, cIgnored, cDryRun, cPc, cToClean, cI,
                   cDeleted, cErrors, cRequests, cRet,
                   dedupVars, eventVars, scanVars, poolVars, diffVars, sumVars, podVars>>

\* Pods(ns).List fails for the next namespace: the error is kept, continue
CleanListNsError ==
    /\ cPc = "list"
    /\ cNi < Len(cArgNs)
    /\ TrimSpace(cArgNs[cNi + 1]) # ""
    /\ cErrors' = Append(cErrors, <<"list", TrimSpace(cArgNs[cNi + 1])>>)
    /\ cNi' = cNi + 1
    /\ UNCHANGED <<cCluster, cInitial, cArgNs, cIgnored, cDryRun, cPc, cAllPods, cToClean, cI,
                   cDeleted, cRequests, cRet,
                   dedupVars, eventVars, scanVars, poolVars, diffVars, sumVars, podVars>>

\* the loop over namespaces is over
CleanListEnd ==
    /\ cPc = "list"
    /\ Len(cArgNs) > 0
    /\ cNi = Len(cArgNs)
    /\ cPc' = "filter"
    /\ UNCHANGED <<cCluster, cInitial, cArgNs, cIgnored, cDryRun, cNi, cAllPods, cToClean, cI,
                   cDeleted, cErrors, cRequests, cRet,
                   dedupVars, eventVars, scanVars, poolVars, diffVars, sumVars, podVars>>

\* the pods of ignored namespaces are filtered out and the pods to clean
\* identified
CleanIdentify ==
    /\ cPc = "filter"
    /\ cAllPods' = cleanFilterIgnored(cAllPods, cIgnored)
    /\ cToClean' = identifyPodsToClean(cAllPods')
    /\ cPc' = "clean"
    /\ UNCHANGED <<cCluster, cInitial, cArgNs, cIgnored, cDryRun, cNi, cI,
                   cDeleted, cErrors, cRequests, cRet,
                   dedupVars, eventVars, scanVars, poolVars, diffVars, sumVars, podVars>>

\* dry run: the next pod to clean is reported
CleanReport ==
    /\ cPc = "clean"
    /\ cI < Len(cToClean)
    /\ isDryRun(cDryRun)
    /\ cDeleted' = Append(cDeleted, cToClean[cI + 1])
    /\ cI' = cI + 1
    /\ UNCHANGED <<cCluster, cInitial, cArgNs, cIgnored, cDryRun, cPc, cNi, cAllPods, cToClean,
                   cErrors, cRequests, cRet,
                   dedupVars, eventVars, scanVars, poolVars, diffVars, sumVars, podVars>>

\* Pods(ns).Delete succeeds for the next pod to clean
CleanDelete ==
    /\ cPc = "clean"
    /\ cI < Len(cToClean)
    /\ ~isDryRun(cDryRun)
    /\ cRequests' = Append(cRequests, <<cToClean[cI + 1].Namespace, cToClean[cI + 1].Name>>)
    /\ cCluster' = cCluster \ podsNamed(cCluster, cToClean[cI + 1].Namespace,
                                         cToClean[cI + 1].Name)
    /\ cDeleted' = Append(cDeleted, cToClean[cI + 1])
    /\ cI' = cI + 1
    /\ UNCHANGED <<cInitial, cArgNs, cIgnored, cDryRun, cPc, cNi, cAllPods, cToClean,
                   cErrors, cRet,
                   dedupVars, eventVars, scanVars, poolVars, diffVars, sumVars, podVars>>

\* Pods(ns).Delete fails for the next pod to clean: the error is kept, continue
CleanDeleteError ==
    /\ cPc = "clean"
    /\ cI < Len(cToClean)
    /\ ~isDryRun(cDryRun)
    /\ cRequests' = Append(cRequests, <<cToClean[cI + 1].Namespace, cToClean[cI + 1].Name>>)
    /\ cErrors' = Append(cErrors, <<"delete", cToClean[cI + 1].Namespace,
                                    cToClean[cI + 1].Name>>)
    /\ cI' = cI + 1
    /\ UNCHANGED <<cCluster, cInitial, cArgNs, cIgnored, cDryRun, cPc, cNi, cAllPods, cToClean,
                   cDeleted, cRet,
                   dedupVars, eventVars, scanVars, poolVars, diffVars, sumVars, podVars>>

\* return result, nil
CleanReturn ==
    /\ cPc = "clean"
    /\ cI = Len(cToClean)
    /\ cRet' = [result |-> <<[DeletedPods |-> cDeleted, DryRun |-> cDryRun,
                              Errors |-> cErrors]>>,
                err |-> FALSE]
    /\ cPc' = "returned"
    /\ UNCHANGED <<cCluster, cInitial, cArgNs, cIgnored, cDryRun, cNi, cAllPods, cToClean, cI,
                   cDeleted, cErrors, cRequests,
                   dedupVars, eventVars, scanVars, poolVars, diffVars, sumVars, podVars>>

CleanNext ==
    \/ CleanListAll
    \/ CleanListAllError
    \/ CleanListNsSkip
    \/ CleanListNs
    \/ CleanListNsError
    \/ CleanListEnd
    \/ CleanIdentify
    \/ CleanReport
    \/ CleanDelete
    \/ CleanDeleteError
    \/ CleanReturn

(* Inputs of the cleaning specification *)

\* the largest number of pods in the cluster
MaxCleanPods == 4

CleanClusters == {c \in SUBSET (1..Len(CleanCatalog)) : Cardinality(c) <= MaxCleanPods}

CleanNsArgs == {<<>>, <<"ns1">>, <<"ns1", " ns2">>, <<" ", "ns2">>}

CleanIgnored == {{}, {"ns2"}}

CleanInit ==
    /\ cCluster \in CleanClusters
    /\ cInitial = cCluster
    /\ cArgNs \in CleanNsArgs
    /\ cIgnored \in CleanIgnored
    /\ cDryRun \in BOOLEAN
    /\ cPc = "list" /\ cNi = 0 /\ cAllPods = <<>> /\ cToClean = <<>> /\ cI = 0
    /\ cDeleted = <<>> /\ cErrors = <<>> /\ cRequests = <<>> /\ cRet = <<>>
    /\ DedupIdle /\ EventIdle /\ ScanIdle /\ PoolIdle
    /\ DiffIdle /\ SumIdle /\ PodIdle

SpecClean == CleanInit /\ [][CleanNext]_vars

(* Claims about CleanPods, checked under SpecClean *)

\* the pods of the cluster that are to be cleaned: failed with a reason that
\* tells of an eviction, or succeeded
ToBeCleaned(n) ==
    \/ CleanCatalog[n].Phase = "Failed"
       /\ CleanCatalog[n].Reason \in {"Evicted", "Pod was evicted by the kubelet"}
    \/ CleanCatalog[n].Phase = "Succeeded"

\* the namespace was listed: all namespaces were, or the namespace was given
\* and its listing did not fail
Listed(ns) ==
    \/ cArgNs = <<>>
    \/ /\ \E i \in 1..Len(cArgNs) : TrimSpace(cArgNs[i]) = ns
       /\ \A i \in 1..Len(cErrors) : cErrors[i] # <<"list", ns>>

\* C20: with dryRun true CleanPods sends no delete request, the cluster's set
\* of pods stays as it was, and DeletedPods lists exactly the pods identified
\* for cleaning
C20_DryRunDeletesNothing ==
    cDryRun =>
        /\ cRequests = <<>>
        /\ cCluster = cInitial
        /\ (cPc = "returned" /\ ~cRet.err) =>
              /\ cRet.result[1].DryRun
              /\ cRet.result[1].DeletedPods = cToClean
              /\ \A n \in cInitial :
                    (/\ ToBeCleaned(n)
                     /\ Listed(CleanCatalog[n].Namespace)
                     /\ CleanCatalog[n].Namespace \notin cIgnored)
                    <=> \E i \in 1..Len(cRet.result[1].DeletedPods) :
                           /\ cRet.result[1].DeletedPods[i].Namespace = CleanCatalog[n].Namespace
                           /\ cRet.result[1].DeletedPods[i].Name = CleanCatalog[n].Name

\* a dry run over all namespaces returned an evicted and a completed pod
C20_Witness ==
    /\ cDryRun
    /\ cPc = "returned"
    /\ cArgNs = <<>>
    /\ ~cRet.err
    /\ Len(cRet.result[1].DeletedPods) >= 2
    /\ \E i \in 1..Len(cRet.result[1].DeletedPods) :
          cRet.result[1].DeletedPods[i].Reason = "Completed"
    /\ Cardinality(cCluster) > Len(cRet.result[1].DeletedPods)

----------------------------------------------------------------------------
(* Claims about processPod and GetPodStatus, checked under SpecPod *)

\* the smallest element of a non-empty set of numbers
Least(S) == CHOOSE x \in S : \A y \in S : x <= y

\* the positions of the containers that are waiting, and that are terminated
WaitingPositions(pod) ==
    {i \in 1..Len(pod.ContainerStatuses) : pod.ContainerStatuses[i].Waiting # <<>>}

TerminatedPositions(pod) ==
    {i \in 1..Len(pod.ContainerStatuses) : pod.ContainerStatuses[i].Terminated # <<>>}

\* C21: GetPodStatus returns the phase when it is not empty; otherwise the
\* reason of the first waiting container in list order; otherwise the reason
\* of the first terminated container; otherwise "Unknown". A waiting
\* container wins over a terminated one wherever they are in the list
C21_StatusPriority ==
    ppPc = "done" =>
        /\ ppPod.Phase # "" => ppStatus = ppPod.Phase
        /\ (ppPod.Phase = "" /\ WaitingPositions(ppPod) # {}) =>
              ppStatus = ppPod.ContainerStatuses[Least(WaitingPositions(ppPod))].Waiting[1]
        /\ (ppPod.Phase = "" /\ WaitingPositions(ppPod) = {}
            /\ TerminatedPositions(ppPod) # {}) =>
              ppStatus = ppPod.ContainerStatuses[Least(TerminatedPositions(ppPod))].Terminated[1]
        /\ (ppPod.Phase = "" /\ WaitingPositions(ppPod) = {}
            /\ TerminatedPositions(ppPod) = {}) =>
              ppStatus = "Unknown"

\* a pod without a phase whose first container is terminated and whose
\* second is waiting got the waiting reason as its status
C21_Witness ==
    /\ ppPc = "done"
    /\ ppPod.Phase = ""
    /\ Len(ppPod.ContainerStatuses) = 2
    /\ ppPod.ContainerStatuses[1].Waiting = <<>>
    /\ ppPod.ContainerStatuses[1].Terminated = <<"OOMKilled">>
    /\ ppPod.ContainerStatuses[2].Waiting = <<"CrashLoopBackOff">>
    /\ ppStatus = "CrashLoopBackOff"

\* the pod-level test of an eviction
FailedEvicted(pod) == pod.Phase = "Failed" /\ pod.Reason = "Evicted"

\* the positions of the issues with the reason
IssuesWithReason(list, reason) == {i \in 1..Len(list) : list[i].Reason = reason}

\* the greatest restart count of the pod's containers, 0 without containers
GreatestRestartCount(pod) ==
    IF Len(pod.ContainerStatuses) = 0 THEN 0
    ELSE CHOOSE c \in {pod.ContainerStatuses[i].RestartCount :
                          i \in 1..Len(pod.ContainerStatuses)} :
            \A i \in 1..Len(pod.ContainerStatuses) :
               pod.ContainerStatuses[i].RestartCount <= c

\* the number of container states, waiting or terminated, with the reason
ContainerStatesWithReason(pod, reason) ==
    Cardinality({i \in 1..Len(pod.ContainerStatuses) :
                    pod.ContainerStatuses[i].Waiting = <<reason>>})
    + Cardinality({i \in 1..Len(pod.ContainerStatuses) :
                      pod.ContainerStatuses[i].Terminated = <<reason>>})

\* C22 as stated: processPod emits exactly one issue with reason Evicted
\* when, and only when, the phase is Failed and the pod-level reason is
\* "Evicted"; its restart count is the greatest restart count of the
\* containers, 0 without containers
C22_OneEvictedIssueIffFailedEvicted ==
    ppPc = "done" =>
        /\ FailedEvicted(ppPod) =>
              /\ Cardinality(IssuesWithReason(ppOut, "Evicted")) = 1
              /\ \A i \in IssuesWithReason(ppOut, "Evicted") :
                    ppOut[i].RestartCount = GreatestRestartCount(ppPod)
        /\ ~FailedEvicted(ppPod) => IssuesWithReason(ppOut, "Evicted") = {}

\* C22, amended: processPod puts one pod-level issue with reason Evicted at
\* the head of its result when, and only when, the phase is Failed and the
\* pod-level reason is "Evicted", its restart count being the greatest
\* restart count of the containers (0 without containers); every further
\* issue with reason Evicted stands for a container state whose own reason
\* is "Evicted"
C22_PodLevelEvictedIssue ==
    ppPc = "done" =>
        /\ FailedEvicted(ppPod) =>
              /\ Len(ppOut) >= 1
              /\ ppOut[1].Reason = "Evicted"
              /\ ppOut[1].Severity = "medium"
              /\ ppOut[1].RestartCount = GreatestRestartCount(ppPod)
              /\ Cardinality(IssuesWithReason(ppOut, "Evicted"))
                    = 1 + ContainerStatesWithReason(ppPod, "Evicted")
        /\ ~FailedEvicted(ppPod) =>
              Cardinality(IssuesWithReason(ppOut, "Evicted"))
                 = ContainerStatesWithReason(ppPod, "Evicted")

\* an evicted pod whose second container restarted more often than the
\* first went through processPod
C22_Witness ==
    /\ ppPc = "done"
    /\ FailedEvicted(ppPod)
    /\ Len(ppPod.ContainerStatuses) = 2
    /\ ppPod.ContainerStatuses[1].RestartCount = 3
    /\ ppPod.ContainerStatuses[2].RestartCount = 4
    /\ ppOut[1].Reason = "Evicted"
    /\ ppOut[1].RestartCount = 4

\* the number of container states of the pod, waiting or terminated with a
\* non-empty reason, that carry the reason and the restart count
ContainerStatesWith(pod, reason, count) ==
    Cardinality({i \in 1..Len(pod.ContainerStatuses) :
                    /\ pod.ContainerStatuses[i].Waiting = <<reason>>
                    /\ pod.ContainerStatuses[i].RestartCount = count})
    + Cardinality({i \in 1..Len(pod.ContainerStatuses) :
                      /\ pod.ContainerStatuses[i].Terminated = <<reason>>
                      /\ reason # ""
                      /\ pod.ContainerStatuses[i].RestartCount = count})

\* 1 when the pod-level issue of an eviction has the reason and the count
PodLevelIssuesWith(pod, reason, count) ==
    IF FailedEvicted(pod) /\ reason = "Evicted" /\ count = GreatestRestartCount(pod)
    THEN 1 ELSE 0

\* the reasons and the restart counts of the pod's containers and of the issues
ReasonsAround(pod, list) ==
    {list[i].Reason : i \in 1..Len(list)}
    \cup UNION {Range(pod.ContainerStatuses[i].Waiting) \cup
                Range(pod.ContainerStatuses[i].Terminated) :
                   i \in 1..Len(pod.ContainerStatuses)}

CountsAround(pod, list) ==
    {list[i].RestartCount : i \in 1..Len(list)}
    \cup {pod.ContainerStatuses[i].RestartCount : i \in 1..Len(pod.ContainerStatuses)}

\* C23: for every container state processPod emits one issue with the
\* waiting reason if the container is waiting and one with the terminated
\* reason if it is terminated with a non-empty reason, each with that
\* container's restart count; apart from the pod-level issue of an eviction
\* and the HighRestartCount issues it emits no other issue
C23_OneIssuePerContainerState ==
    ppPc = "done" =>
        \A reason \in ReasonsAround(ppPod, ppOut) \ {"HighRestartCount"} :
           \A count \in CountsAround(ppPod, ppOut) :
              Cardinality({i \in 1..Len(ppOut) :
                              /\ ppOut[i].Reason = reason
                              /\ ppOut[i].RestartCount = count})
                 = ContainerStatesWith(ppPod, reason, count)
                   + PodLevelIssuesWith(ppPod, reason, count)

\* a pod with a container terminated with a reason and no restarts and a
\* container waiting with three restarts yielded one issue for each, in the
\* order of the containers
C23_Witness ==
    /\ ppPc = "done"
    /\ ~FailedEvicted(ppPod)
    /\ Len(ppPod.ContainerStatuses) = 2
    /\ ppPod.ContainerStatuses[1].Terminated = <<"OOMKilled">>
    /\ ppPod.ContainerStatuses[1].RestartCount = 0
    /\ ppPod.ContainerStatuses[2].Waiting = <<"CrashLoopBackOff">>
    /\ ppPod.ContainerStatuses[2].RestartCount = 3
    /\ Len(ppOut) = 2
    /\ ppOut[1].Reason = "OOMKilled" /\ ppOut[1].RestartCount = 0
    /\ ppOut[2].Reason = "CrashLoopBackOff" /\ ppOut[2].RestartCount = 3

----------------------------------------------------------------------------
(* Claims about the restart check, checked under SpecRestart *)

\* C24: CheckRestartSeverity is high exactly when the count is strictly
\* greater than the threshold (11 against 10, not 10 against 10); for every
\* restart count processPod emits as many HighRestartCount issues as there
\* are containers with that count, when the count is above the threshold,
\* and none otherwise, whatever the state of the container; every
\* HighRestartCount issue has severity high and the fixed root cause
C24_HighRestartCountAboveThreshold ==
    /\ clPc = "done" =>
          /\ clRestartSeverity = "high" <=> clCount > clThreshold
          /\ clRestartSeverity = "low" <=> clCount <= clThreshold
    /\ ppPc = "done" =>
          /\ \A count \in CountsAround(ppPod, ppOut) :
                Cardinality({i \in IssuesWithReason(ppOut, "HighRestartCount") :
                                ppOut[i].RestartCount = count})
                   = IF count > ppThreshold
                     THEN Cardinality({i \in 1..Len(ppPod.ContainerStatuses) :
                                          ppPod.ContainerStatuses[i].RestartCount = count})
                     ELSE 0
          /\ \A i \in IssuesWithReason(ppOut, "HighRestartCount") :
                /\ ppOut[i].Severity = "high"
                /\ ppOut[i].RootCause = "Container bi restart qua nhieu lan (unstable)."

\* a pod with a waiting container above the threshold and a container with
\* no state at the threshold yielded the waiting issue and one
\* HighRestartCount issue
C24_Witness ==
    /\ ppPc = "done"
    /\ ~FailedEvicted(ppPod)
    /\ Len(ppPod.ContainerStatuses) = 2
    /\ ppPod.ContainerStatuses[1].Waiting = <<"CrashLoopBackOff">>
    /\ ppPod.ContainerStatuses[1].RestartCount = ppThreshold + 1
    /\ ppPod.ContainerStatuses[2].Waiting = <<>>
    /\ ppPod.ContainerStatuses[2].Terminated = <<>>
    /\ ppPod.ContainerStatuses[2].RestartCount = ppThreshold
    /\ Len(ppOut) = 2
    /\ ppOut[1].Reason = "CrashLoopBackOff"
    /\ ppOut[2].Reason = "HighRestartCount"
    /\ ppOut[2].Severity = "high"

\* the check was made with 11 against 10 and gave high
C24_ElevenAgainstTen ==
    /\ clPc = "done"
    /\ clCount = 11
    /\ clThreshold = 10
    /\ clRestartSeverity = "high"

\* the check was made with 10 against 10 and gave low
C24_TenAgainstTen ==
    /\ clPc = "done"
    /\ clCount = 10
    /\ clThreshold = 10
    /\ clRestartSeverity = "low"

----------------------------------------------------------------------------
(* Claims about the issue that survives, checked under SpecPipeline *)

\* the raw list holds, for the pod of issue x, a HighRestartCount issue and
\* an issue with another reason and the same severity
RestartsAndOtherReason(raw, x) ==
    \E i, j \in 1..Len(raw) :
       /\ SamePod(raw[i], x) /\ SamePod(raw[j], x)
       /\ raw[i].Reason = "HighRestartCount"
       /\ raw[j].Reason # "HighRestartCount"
       /\ raw[j].Severity = raw[i].Severity

\* one container, waiting in CrashLoopBackOff, restart count above the threshold
CrashLoopingAboveThreshold(pod, threshold) ==
    /\ Len(pod.ContainerStatuses) = 1
    /\ pod.ContainerStatuses[1].Waiting = <<"CrashLoopBackOff">>
    /\ pod.ContainerStatuses[1].RestartCount > threshold

\* the list holds an issue for the pod, and all its issues for the pod have
\* the reason
ReportedWith(list, pod, reason) ==
    /\ \E k \in 1..Len(list) :
          list[k].Namespace = pod.Namespace /\ list[k].Name = pod.Name
    /\ \A k \in 1..Len(list) :
          (list[k].Namespace = pod.Namespace /\ list[k].Name = pod.Name)
             => list[k].Reason = reason

\* C25: when the raw issues of a pod hold a HighRestartCount issue and an
\* issue with another reason and the same severity, the issue of that pod
\* after deduplication is not the HighRestartCount one; a pod waiting in
\* CrashLoopBackOff with a restart count above the threshold is reported
\* with reason CrashLoopBackOff
C25_SpecificReasonOutlivesRestarts ==
    /\ (ppPc = "done" /\ dPc = "once") =>
          /\ \A k \in 1..Len(dOut) :
                RestartsAndOtherReason(dIn, dOut[k]) => dOut[k].Reason # "HighRestartCount"
          /\ CrashLoopingAboveThreshold(ppPod, ppThreshold) =>
                ReportedWith(dOut, ppPod, "CrashLoopBackOff")
    /\ (sPc = "returned" /\ ~sRet.err) =>
          /\ \A k \in 1..Len(sRet.issues) :
                RestartsAndOtherReason(sIssues, sRet.issues[k])
                   => sRet.issues[k].Reason # "HighRestartCount"
          /\ \A w \in Workers :
                CrashLoopingAboveThreshold(sPods[w], sThreshold) =>
                   ReportedWith(sRet.issues, sPods[w], "CrashLoopBackOff")

\* a scan met a pod waiting in CrashLoopBackOff above the threshold, its raw
\* issues held a HighRestartCount issue, and it was reported with reason
\* CrashLoopBackOff
C25_Witness ==
    /\ sPc = "returned"
    /\ ~sRet.err
    /\ \E w \in Workers : CrashLoopingAboveThreshold(sPods[w], sThreshold)
    /\ \E k \in 1..Len(sRet.issues) :
          /\ RestartsAndOtherReason(sIssues, sRet.issues[k])
          /\ sRet.issues[k].Reason = "CrashLoopBackOff"

\* the raw issues of a pod held a HighRestartCount issue before the
\* CrashLoopBackOff issue of another container, and the latter survived
C25_RestartsFirstWitness ==
    /\ ppPc = "done" /\ dPc = "once"
    /\ Len(dIn) = 2
    /\ dIn[1].Reason = "HighRestartCount"
    /\ dIn[2].Reason = "CrashLoopBackOff"
    /\ Len(dOut) = 1
    /\ dOut[1].Reason = "CrashLoopBackOff"

----------------------------------------------------------------------------
(* Claims about the keys of the event index, checked under SpecEvents *)

\* the events of kind Pod and the name that the source lists in the namespace
PodEventPositions(ns, name) ==
    {i \in 1..Len(evSource[ns].items) :
        /\ evSource[ns].items[i].Kind = "Pod"
        /\ evSource[ns].items[i].Name = name}

\* the namespace was given and listing its events succeeded
Fetched(ns) == ns \in Range(evArg) /\ ~evSource[ns].err

\* C26: the index BuildEventMap returns has the key namespace/name exactly
\* when the namespace is a given one whose fetch succeeded and one of its
\* events is of kind Pod with that name; it has no other key, and the entry
\* is the message of such a Pod event, so events of another kind neither
\* add nor change an entry
C26_IndexKeys ==
    evPc = "returned" =>
        /\ \A ns \in EvNamespaces : \A name \in EvNames :
              (ns \o "/" \o name) \in DOMAIN evRet
                 <=> (Fetched(ns) /\ PodEventPositions(ns, name) # {})
        /\ DOMAIN evRet \subseteq {ns \o "/" \o name : ns \in EvNamespaces, name \in EvNames}
        /\ \A ns \in EvNamespaces : \A name \in EvNames :
              (ns \o "/" \o name) \in DOMAIN evRet =>
                 \E i \in PodEventPositions(ns, name) :
                    evRet[ns \o "/" \o name] = evSource[ns].items[i].Msg

\* the index was returned for a namespace that lists a Pod event of db and,
\* after it, a later Node event of web: db is the only key
C26_Witness ==
    /\ evPc = "returned"
    /\ Fetched("ns1")
    /\ Len(evSource["ns1"].items) = 2
    /\ evSource["ns1"].items[1].Kind = "Pod" /\ evSource["ns1"].items[1].Name = "db"
    /\ evSource["ns1"].items[2].Kind = "Node" /\ evSource["ns1"].items[2].Name = "web"
    /\ evSource["ns1"].items[2].Ts > evSource["ns1"].items[1].Ts
    /\ DOMAIN evRet = {"ns1/db"}

----------------------------------------------------------------------------
(* Claims about the event index during a scan, checked under SpecScan *)

\* a worker of ScanPods has been started
WorkerStarted == \E w \in Workers : wPc[w] # "idle"

\* what a lookup of the pod of the issue in the index of the scan gives
IndexEntryOf(x) ==
    IF (x.Namespace \o "/" \o x.Name) \in DOMAIN sEventMap
    THEN sEventMap[x.Namespace \o "/" \o x.Name]
    ELSE ""

\* the issues the workers produced, the accumulated ones and the returned ones
IssuesOfScan ==
    IssuesSeen \cup (IF sPc = "returned" /\ ~sRet.err THEN Range(sRet.issues) ELSE {})

\* once a worker has been started BuildEventMap has returned, every one of
\* its goroutines is over, and the workers' index is the index built; the
\* last event of every issue is the entry of its pod, or empty without one
IndexBuiltBeforeWorkers ==
    /\ WorkerStarted =>
          /\ evPc = "returned"
          /\ \A g \in Goroutines : gPc[g] = "done"
          /\ evMu = 0
          /\ sEventMap = eventMap
    /\ \A x \in IssuesOfScan : x.LastEvent = IndexEntryOf(x)

\* C27: in every execution of ScanPods the event index is completely built
\* (every goroutine of BuildEventMap has fetched, merged and finished) before
\* the first worker starts, no step writes the index once a worker has
\* started, and every issue's last event is the index entry of its
\* namespace/name, or the empty string when there is none
C27_IndexReadOnlyForWorkers ==
    /\ []IndexBuiltBeforeWorkers
    /\ [][WorkerStarted => (eventMap' = eventMap /\ sEventMap' = sEventMap)]_vars

\* a scan returned an issue with the last event of its pod and an issue of a
\* pod of the namespace whose events could not be listed
C27_Witness ==
    /\ sPc = "returned"
    /\ ~sRet.err
    /\ Len(evArg) = 2
    /\ DOMAIN sEventMap = {"ns1/web"}
    /\ \E i, j \in 1..Len(sRet.issues) :
          /\ sRet.issues[i].Namespace = "ns1" /\ sRet.issues[i].Name = "web"
          /\ sRet.issues[i].LastEvent = "ns1.m1"
          /\ sRet.issues[j].Namespace = "ns2"
          /\ sRet.issues[j].LastEvent = ""

----------------------------------------------------------------------------
(* Claims about the collections of a diff, checked under SpecDiff *)

\* the ChangedIssues entries whose old or new issue has the key
ChangedTouching(key) ==
    {i \in 1..Len(fResult.ChangedIssues) :
        \/ KeyString(fResult.ChangedIssues[i].OldIssue) = key
        \/ KeyString(fResult.ChangedIssues[i].NewIssue) = key}

\* C28: every identity key (the string "namespace/kind/name") of the old or
\* the new snapshot occurs in at most one of NewIssues, ResolvedIssues and
\* ChangedIssues, and at most once in it; the old and the new issue of every
\* ChangedIssues entry have the same identity key
C28_KeyInAtMostOneCollection ==
    fPc = "done" =>
        /\ \A key \in KeysOf(fOld) \cup KeysOf(fNew) :
              Cardinality(PositionsOf(fResult.NewIssues, key))
              + Cardinality(PositionsOf(fResult.ResolvedIssues, key))
              + Cardinality(ChangedTouching(key)) <= 1
        /\ \A i \in 1..Len(fResult.ChangedIssues) :
              KeyString(fResult.ChangedIssues[i].OldIssue)
                 = KeyString(fResult.ChangedIssues[i].NewIssue)

\* the new snapshot holds a key twice, with different restart counts, and a
\* key of its own; the old snapshot holds the first key: one entry in
\* ChangedIssues, one in NewIssues, none in ResolvedIssues
C28_Witness ==
    /\ fPc = "done"
    /\ Len(fOld) = 1
    /\ Len(fNew) = 2
    /\ KeyString(fNew[1]) = KeyString(fOld[1])
    /\ KeyString(fNew[2]) # KeyString(fOld[1])
    /\ Len(fResult.ChangedIssues) = 1
    /\ Len(fResult.NewIssues) = 1
    /\ Len(fResult.ResolvedIssues) = 0

\* a key held twice by the new snapshot and once by the old one is in
\* ChangedIssues once
C28_DuplicateWitness ==
    /\ fPc = "done"
    /\ Len(fOld) = 1
    /\ Len(fNew) = 2
    /\ KeysOf(fNew) = KeysOf(fOld)
    /\ fNew[1] # fNew[2]
    /\ fNew[1] = fOld[1]
    /\ Len(fResult.ChangedIssues) = 1
    /\ fResult.NewIssues = <<>>
    /\ fResult.ResolvedIssues = <<>>

----------------------------------------------------------------------------
(* Claims about what deduplicateIssues keeps, checked under SpecDedup *)

\* the positions of the list that hold an issue of the pod of x
PositionsOfPod(list, x) == {i \in 1..Len(list) : SamePod(list[i], x)}

\* C29: deduplicateIssues drops no pod and invents no issue: for each
\* (namespace, name) pair of the input exactly one issue of the output has
\* that namespace and name, and every issue of the output is equal in all
\* fields to an issue of the input
C29_NoPodDroppedNoIssueInvented ==
    /\ dPc = "once" =>
          /\ \A x \in Range(dIn) : Cardinality(PositionsOfPod(dOut, x)) = 1
          /\ \A i \in 1..Len(dOut) : dOut[i] \in Range(dIn)
    /\ dPc = "twice" =>
          /\ \A x \in Range(dFirst) : Cardinality(PositionsOfPod(dOut, x)) = 1
          /\ \A i \in 1..Len(dOut) : dOut[i] \in Range(dFirst)

\* two pods with the same name in different namespaces, one of them with two
\* issues, came out with one issue each
C29_Witness ==
    /\ dPc = "once"
    /\ Len(dIn) = 3
    /\ \E i, j \in 1..Len(dIn) :
          /\ dIn[i].Name = dIn[j].Name
          /\ dIn[i].Namespace # dIn[j].Namespace
    /\ \E i, j \in 1..Len(dIn) : i # j /\ SamePod(dIn[i], dIn[j]) /\ dIn[i] # dIn[j]
    /\ Len(dOut) = 2
    /\ dOut[1].Namespace # dOut[2].Namespace

----------------------------------------------------------------------------
(* Claims about the interleavings of the workers, checked under SpecScan *)

\* the issue without its timestamp
WithoutTimestamp(x) == [x EXCEPT !.Timestamp = ""]

\* the raw list of the execution that runs the workers of the first n pods
\* one after the other, in the order of the pods
RECURSIVE SequentialRaw(_)
SequentialRaw(n) ==
    IF n = 0 THEN <<>>
    ELSE SequentialRaw(n - 1) \o processPod(sPods[n], sThreshold, sEventMap, "")

\* the pods of the scan have pairwise distinct namespace and name
DistinctPods ==
    \A v, w \in Workers :
       (sPods[v].Namespace = sPods[w].Namespace /\ sPods[v].Name = sPods[w].Name) => v = w

\* the raw list is not in the order of the pods: an issue of a later pod
\* precedes an issue of an earlier one
RawOutOfOrder ==
    \E i, j \in 1..Len(sIssues) : \E v, w \in Workers :
       /\ i < j /\ v > w
       /\ sIssues[i].Namespace = sPods[v].Namespace /\ sIssues[i].Name = sPods[v].Name
       /\ sIssues[j].Namespace = sPods[w].Namespace /\ sIssues[j].Name = sPods[w].Name

\* C30: for pods with pairwise distinct (namespace, name), a threshold and an
\* event index, the set of issues ScanPods returns, timestamps left aside,
\* is the same for every interleaving of the workers: it is the set the
\* execution that runs the workers one after the other returns
C30_ResultSameForEveryInterleaving ==
    (sPc = "returned" /\ ~sRet.err /\ Len(sPods) > 0 /\ DistinctPods) =>
        {WithoutTimestamp(x) : x \in Range(sRet.issues)}
           = {WithoutTimestamp(x) : x \in MapValues(dedupLoop(SequentialRaw(Len(sPods))))}

\* a scan of three pods with issues returned after the workers had appended
\* in another order than that of the pods
C30_Witness ==
    /\ sPc = "returned"
    /\ ~sRet.err
    /\ Len(sPods) = 3
    /\ DistinctPods
    /\ RawOutOfOrder
    /\ Len(sRet.issues) = 3

====
